---- MODULE Spec2Model ----
(***************************************************************************)
(* Verification model of the staticstripes renderer (gannochenko/mkvideo). *)
(*                                                                         *)
(*  - CmdSpec models the assembly of the encoder command: the asset input  *)
(*    map, the -i argument list and the [k:v] labels of the filter graph.  *)
(*  - Spec models the `generate` command: the loop over the requested      *)
(*    outputs, the overlay rasterizers with their PNG caches, the browser  *)
(*    life cycle, the encoder and the cache reaper.                        *)
(*  - LibSpec models the functions of the filter library, the expression   *)
(*    evaluator, the timeline builders and the asset preparation, each     *)
(*    applied to inputs drawn from bounded sets.                           *)
(*  - TimingSpec models the resolution of fragment timing over passes.     *)
(***************************************************************************)
EXTENDS Integers, Sequences, FiniteSets, TLC

VARIABLES
    \* ---- command assembly (CmdSpec) ----
    sequences,        \* the project's sequences: each a list of fragments' asset names
    assets,           \* names of the assets the project defines (<asset> elements)
    cstage,           \* "input" | "mapped" | "assembled"
    usedAssets,       \* FFmpegGenerator.usedAssets
    assetInputMap,    \* FFmpegGenerator.assetInputMap / ProjectStructure.assetIndexMap
    command,          \* the assembled commands
    \* ---- generate run (Spec) ----
    projectFile,      \* content of project.html
    appCache,         \* <project>/cache/apps: key -> resolution the PNG was rasterized at
    containerCache,   \* <project>/.cache/containers: key -> resolution of the PNG
    pc,               \* position of the generate handler
    run,              \* per-run locals of the handler
    project,          \* the Project instance of the current loop iteration
    browser,          \* the headless browser of the current rasterizer call
    hist,             \* observations of the current run (what it wrote, launched, deleted)
    \* ---- library functions (LibSpec) ----
    call,             \* the function applied and its arguments
    result,           \* what the call returned or threw
    \* ---- timing resolution (TimingSpec) ----
    timing            \* fragments, expression context, pass counter, stage

cmdVars == <<sequences, assets, cstage, usedAssets, assetInputMap, command>>
runVars == <<projectFile, appCache, containerCache, pc, run, project, browser, hist>>
libVars == <<call, result>>
vars == <<sequences, assets, cstage, usedAssets, assetInputMap, command,
          projectFile, appCache, containerCache, pc, run, project, browser, hist,
          call, result, timing>>
\* what the actions of one part leave alone
notCmd == <<runVars, libVars, timing>>
notRun == <<cmdVars, libVars, timing>>
notLib == <<cmdVars, runVars, timing>>
notTiming == <<cmdVars, runVars, libVars>>

(***************************************************************************)
(* Generic helpers                                                         *)
(***************************************************************************)
Range(s) == {s[i] : i \in 1..Len(s)}

RECURSIVE Flatten(_)
Flatten(ss) == IF ss = <<>> THEN <<>> ELSE Head(ss) \o Flatten(Tail(ss))

\* Insertion order of a JavaScript Set filled from a list: first occurrences only.
RECURSIVE SetOrder(_, _)
SetOrder(s, seen) ==
    IF s = <<>> THEN <<>>
    ELSE IF Head(s) \in seen THEN SetOrder(Tail(s), seen)
    ELSE <<Head(s)>> \o SetOrder(Tail(s), seen \cup {Head(s)})

IndexOf(s, x) == CHOOSE i \in 1..Len(s) : s[i] = x

\* Sequences over S of length at most n
SeqsUpTo(S, n) == UNION {[1..k -> S] : k \in 0..n}

(***************************************************************************)
(* Command assembly                                                        *)
(***************************************************************************)
AssetNames == {"a", "b", "c"}
NoAsset == "none"          \* a fragment whose styles carry no -asset
MaxFragments == 3          \* fragments per sequence
MaxSequences == 1          \* sequences after the first one

AssetPath(name) == name \o ".mp4"

\* src: FFmpegGenerator.buildAssetInputMap — the distinct asset names of all
\* fragments of all sequences, in first-use order.
BuildUsedAssets(seqs) ==
    SetOrder(SelectSeq(Flatten(seqs), LAMBDA n : n # NoAsset), {})

\* usedAssets.forEach((assetName, idx) => assetInputMap.set(assetName, idx))
\* (the variant counts from one)
BuildAssetInputMapFromOne(used) == [n \in Range(used) |-> IndexOf(used, n)]
BuildAssetInputMap(used) == [n \in Range(used) |-> IndexOf(used, n) - 1]

\* src: FFmpegGenerator.getAssetInputIndex — assetInputMap.get(name) ?? -1
GetAssetInputIndex(map, name) == IF name \in DOMAIN map THEN map[name] ELSE -1

\* src: FFmpegGenerator.generateInputs — one "-i path" per used asset that is
\* defined; a used asset with no <asset> element is skipped.
GenerateInputs(used, defined) ==
    LET kept == SelectSeq(used, LAMBDA n : n \in defined)
    IN  [i \in 1..Len(kept) |-> AssetPath(kept[i])]

\* src: generateFFmpegCommand — inputsByIndex holds the defined assets of
\* assetIndexMap; the inputs are pushed in ascending index order.
RECURSIVE SortedByIndex(_, _)
SortedByIndex(map, names) ==
    IF names = {} THEN <<>>
    ELSE LET n == CHOOSE x \in names : \A y \in names : map[x] <= map[y]
         IN  <<AssetPath(n)>> \o SortedByIndex(map, names \ {n})
GenerateFFmpegCommandInputs(map, defined) ==
    SortedByIndex(map, DOMAIN map \cap defined)

\* src: FFmpegGenerator.generateFilterComplex — the fragments of the first
\* sequence that get an input label [k:v]: those with an asset, a known input
\* index and a defined path.
FragmentLabels(seqs, map, defined) ==
    LET first == IF seqs = <<>> THEN <<>> ELSE seqs[1]
        idx   == {i \in 1..Len(first) :
                     /\ first[i] # NoAsset
                     /\ GetAssetInputIndex(map, first[i]) >= 0
                     /\ first[i] \in defined}
    IN  {[fragment |-> i, asset |-> first[i],
          index |-> GetAssetInputIndex(map, first[i])] : i \in idx}

\* src: buildConcatGraph — assetIndexMap.get(frag.assetName) ?? 0 for every
\* fragment of the sequence.
ConcatLabels(fragments, map) ==
    {[fragment |-> i, asset |-> fragments[i],
      index |-> IF fragments[i] \in DOMAIN map THEN map[fragments[i]] ELSE 0]
        : i \in 1..Len(fragments)}

NoCommand == [inputs |-> <<>>, labels |-> {}, simpleInputs |-> <<>>, concatLabels |-> {}]

CmdInit ==
    /\ sequences \in {<<f>> \o rest : f \in SeqsUpTo(AssetNames \cup {NoAsset}, MaxFragments),
                                       rest \in SeqsUpTo(SeqsUpTo(AssetNames, 1), MaxSequences)}
    /\ assets \in SUBSET AssetNames
    /\ cstage = "input"
    /\ usedAssets = <<>>
    /\ assetInputMap = <<>>
    /\ command = NoCommand

\* new FFmpegGenerator(project): the constructor builds the asset input map
Construct ==
    /\ UNCHANGED notCmd
    /\ cstage = "input"
    /\ usedAssets' = BuildUsedAssets(sequences)
    /\ assetInputMap' = BuildAssetInputMap(BuildUsedAssets(sequences))
    /\ cstage' = "mapped"
    /\ UNCHANGED <<sequences, assets, command>>

\* FFmpegGenerator.generate() and generateFFmpegCommand()/buildConcatGraph()
\* over the same asset index map
Generate ==
    /\ UNCHANGED notCmd
    /\ cstage = "mapped"
    /\ command' = [inputs       |-> GenerateInputs(usedAssets, assets),
                   labels       |-> FragmentLabels(sequences, assetInputMap, assets),
                   simpleInputs |-> GenerateFFmpegCommandInputs(assetInputMap, assets),
                   concatLabels |-> ConcatLabels(SelectSeq(sequences[1], LAMBDA n : n # NoAsset),
                                                 assetInputMap)]
    /\ cstage' = "assembled"
    /\ UNCHANGED <<sequences, assets, usedAssets, assetInputMap>>

(***************************************************************************)
(* The generate command: data                                              *)
(***************************************************************************)
RENDER_TIMEOUT_MS == 5000

OutputNames == {"yt", "ig"}
AllOutputs == <<"yt", "ig">>      \* Array.from(initialProject.getOutputs().keys())
Landscape == [width |-> 1920, height |-> 1080]
Portrait == [width |-> 1080, height |-> 1920]

Intro == [id |-> "intro", src |-> "apps/intro", parameters |-> "{}"]
Outro == [id |-> "outro", src |-> "apps/outro", parameters |-> "{}"]
Banner == [id |-> "banner", htmlContent |-> "<h1>hi</h1>"]

Title == "T"
Date == ""
Tags == ""                         \* tags.join(',')
CssText == "h1{}"

\* The project files the user may write: the resolution of output yt, the
\* apps and the containers the fragments use.
ProjectFiles ==
    [resolution : {[yt |-> Landscape, ig |-> Portrait], [yt |-> Portrait, ig |-> Portrait]},
     apps       : {<<>>, <<Intro>>, <<Intro, Outro>>},
     containers : {<<>>, <<Banner>>}]

\* --output: not given (render all), an existing output, an output that does not exist
Options == {"", "yt", "nope"}

NoError == [kind |-> "none", subject |-> "", timeoutMs |-> 0]
Error(kind, subject) == [kind |-> kind, subject |-> subject, timeoutMs |-> 0]

\* A cache directory is a set of PNG files [key, resolution]
Exists(dir, key) == \E f \in dir : f.key = key
ResolutionOf(dir, key) == (CHOOSE f \in dir : f.key = key).resolution
WriteFile(dir, key, resolution) ==
    {f \in dir : f.key # key} \cup {[key |-> key, resolution |-> resolution]}
Keys(dir) == {f.key : f \in dir}

\* src: generateAppCacheKey — SHA-256 over the concatenation of the updates
GenerateAppCacheKey(src, parameters, title, date, tags, outputName) ==
    src \o parameters \o title \o date \o tags \o outputName

\* src: generateCacheKey (containers) — SHA-256 over htmlContent and cssText
GenerateCacheKey(containerHtml, cssText) == containerHtml \o cssText

NoProject == [parsedFor |-> "", resolution |-> [width |-> 0, height |-> 0],
              apps |-> <<>>, containers |-> <<>>, expressionContext |-> {}]

\* src: Project.constructor — a new asset manager and an empty expression
\* context for every parse; the outputs, apps and containers come from the file.
ProjectConstructorKeepsContext(file, outputName) ==
    [parsedFor |-> outputName, resolution |-> file.resolution[outputName],
     apps |-> file.apps, containers |-> file.containers,
     expressionContext |-> project.expressionContext]
ProjectConstructor(file, outputName) ==
    [parsedFor |-> outputName, resolution |-> file.resolution[outputName],
     apps |-> file.apps, containers |-> file.containers,
     expressionContext |-> {}]

\* Fragment ids whose timing the build enters into the expression context
FragmentIds(p) ==
    {"main"} \cup {p.apps[i].id : i \in 1..Len(p.apps)}
             \cup {p.containers[i].id : i \in 1..Len(p.containers)}

NoBrowser == [kind |-> "none", phase |-> "none", launchCalls |-> 0,
              launched |-> FALSE, open |-> FALSE,
              closes |-> 0, ownLaunches |-> 0, pagesOpened |-> 0, pagesClosed |-> 0,
              pageOpen |-> FALSE]

NoRun == [option |-> "", outputsToRender |-> <<>>, i |-> 1, activeCacheKeys |-> {},
          contIdx |-> 1, appIdx |-> 1, error |-> NoError]

NoHist == [considered |-> {}, appWrites |-> {}, containerWrites |-> {},
           encoderRuns |-> {}, encoded |-> {}, reaped |-> FALSE, deleted |-> {}, neverReady |-> "",
           followsSame |-> FALSE, lastOK |-> "-"]

RunInit ==
    /\ projectFile \in ProjectFiles
    /\ appCache = {}
    /\ containerCache = {}
    /\ pc = "idle"
    /\ run = NoRun
    /\ project = NoProject
    /\ browser = NoBrowser
    /\ hist = NoHist

CmdIdle ==
    /\ sequences = <<>>
    /\ assets = {}
    /\ cstage = "input"
    /\ usedAssets = <<>>
    /\ assetInputMap = <<>>
    /\ command = NoCommand

OutputName == run.outputsToRender[run.i]
CurrentApp == project.apps[run.appIdx]
CurrentContainer == project.containers[run.contIdx]
CurrentAppKey ==
    GenerateAppCacheKey(CurrentApp.src, CurrentApp.parameters, Title, Date, Tags, OutputName)
CurrentContainerKey == GenerateCacheKey(CurrentContainer.htmlContent, CssText)

(***************************************************************************)
(* The generate command: the handler, one action per step between awaits   *)
(***************************************************************************)
Idle == pc \in {"idle", "done", "failed"}

\* The user edits project.html between two runs
EditProject ==
    /\ UNCHANGED notRun
    /\ Idle
    /\ projectFile' \in ProjectFiles \ {projectFile}
    /\ pc' = "idle"
    /\ run' = NoRun
    /\ project' = NoProject
    /\ browser' = NoBrowser
    /\ hist' = NoHist
    /\ UNCHANGED <<appCache, containerCache>>

\* src: registerGenerateCommand, up to the loop — the FFmpeg check, the
\* project.html check, the initial parse, the choice of the outputs to render
\* and the fresh set of active cache keys.
StartRun ==
    /\ UNCHANGED notRun
    /\ Idle
    /\ \E option \in Options, ok \in BOOLEAN :
         LET toRender == IF option # "" THEN <<option>> ELSE AllOutputs
             valid    == option = "" \/ option \in Range(AllOutputs)
         IN  /\ run' = [NoRun EXCEPT !.option = option, !.outputsToRender = toRender,
                                     !.error = IF ~ok THEN Error("StartupFailed", "")
                                               ELSE IF ~valid THEN Error("OutputNotFound", option)
                                               ELSE NoError]
             /\ pc' = IF ok /\ valid THEN "loop" ELSE "failed"
             /\ hist' = [NoHist EXCEPT !.followsSame = (hist.lastOK = option)]
    /\ project' = NoProject
    /\ browser' = NoBrowser
    /\ UNCHANGED <<projectFile, appCache, containerCache>>

\* src: loop head — re-parse the project for the output, look the output up
ParseForOutput ==
    /\ UNCHANGED notRun
    /\ pc = "loop"
    /\ run.i <= Len(run.outputsToRender)
    /\ \E ok \in BOOLEAN :
         IF ok
         THEN /\ project' = ProjectConstructor(projectFile, OutputName)
              /\ run' = [run EXCEPT !.contIdx = 1, !.appIdx = 1]
              /\ pc' = "containers"
         ELSE /\ project' = project
              /\ run' = [run EXCEPT !.error = Error("ParseError", OutputName)]
              /\ pc' = "failed"
    /\ browser' = NoBrowser
    /\ UNCHANGED <<projectFile, appCache, containerCache, hist>>

LoopEnd ==
    /\ UNCHANGED notRun
    /\ pc = "loop"
    /\ run.i > Len(run.outputsToRender)
    /\ pc' = "cleanup"
    /\ UNCHANGED <<projectFile, appCache, containerCache, run, project, browser, hist>>

\* Project.renderContainers(outputName, activeCacheKeys): every container and
\* app the output uses is rasterized and its key is entered into the set.
ContainersNext ==
    /\ UNCHANGED notRun
    /\ pc = "containers"
    /\ run.contIdx <= Len(project.containers)
    /\ run' = [run EXCEPT !.activeCacheKeys = @ \cup {CurrentContainerKey}]
    /\ pc' = "container_launch"
    /\ UNCHANGED <<projectFile, appCache, containerCache, project, browser, hist>>

ContainersDone ==
    /\ UNCHANGED notRun
    /\ pc = "containers"
    /\ run.contIdx > Len(project.containers)
    /\ pc' = IF project.apps = <<>> THEN "build" ELSE "apps_launch"
    /\ UNCHANGED <<projectFile, appCache, containerCache, run, project, browser, hist>>

\* src: renderContainer — cache key, HTML document, puppeteer.launch
ContainerLaunch ==
    /\ UNCHANGED notRun
    /\ pc = "container_launch"
    /\ hist' = [hist EXCEPT !.considered = @ \cup {CurrentContainerKey}]
    /\ \E ok \in BOOLEAN :
         IF ok
         THEN /\ browser' = [NoBrowser EXCEPT !.kind = "container", !.phase = "running",
                                              !.launchCalls = 1, !.launched = TRUE,
                                              !.open = TRUE]
              /\ pc' = "container_render"
              /\ run' = run
         ELSE /\ browser' = [NoBrowser EXCEPT !.kind = "container", !.phase = "ended",
                                              !.launchCalls = 1]
              /\ pc' = "failed"
              /\ run' = [run EXCEPT !.error = Error("BrowserLaunchFailed", "")]
    /\ UNCHANGED <<projectFile, appCache, containerCache, project>>

\* src: renderContainer, try block — newPage, setViewport, setContent,
\* screenshot clipped to (width, height), writeFile
ContainerRender ==
    /\ UNCHANGED notRun
    /\ pc = "container_render"
    /\ \E ok \in BOOLEAN :
         IF ok
         THEN /\ containerCache' = WriteFile(containerCache, CurrentContainerKey,
                                             project.resolution)
              /\ hist' = [hist EXCEPT !.containerWrites = @ \cup {CurrentContainerKey}]
              /\ run' = run
         ELSE /\ containerCache' = containerCache
              /\ hist' = hist
              /\ run' = [run EXCEPT !.error = Error("ContainerRenderFailed",
                                                    CurrentContainer.id)]
    /\ pc' = "container_close"
    /\ UNCHANGED <<projectFile, appCache, project, browser>>

\* src: renderContainer, finally — browser.close()
ContainerClose ==
    /\ UNCHANGED notRun
    /\ pc = "container_close"
    /\ browser' = [browser EXCEPT !.open = FALSE, !.closes = @ + 1, !.phase = "ended"]
    /\ IF run.error = NoError
       THEN /\ run' = [run EXCEPT !.contIdx = @ + 1]
            /\ pc' = "containers"
       ELSE /\ run' = run
            /\ pc' = "failed"
    /\ UNCHANGED <<projectFile, appCache, containerCache, project, hist>>

\* src: renderApps — puppeteer.launch, before the try block
AppsLaunch ==
    /\ UNCHANGED notRun
    /\ pc = "apps_launch"
    /\ \E ok \in BOOLEAN :
         IF ok
         THEN /\ browser' = [NoBrowser EXCEPT !.kind = "apps", !.phase = "running",
                                              !.launchCalls = 1, !.launched = TRUE,
                                              !.open = TRUE]
              /\ pc' = "apps_loop"
              /\ run' = run
         ELSE /\ browser' = [NoBrowser EXCEPT !.kind = "apps", !.phase = "ended",
                                              !.launchCalls = 1]
              /\ pc' = "failed"
              /\ run' = [run EXCEPT !.error = Error("BrowserLaunchFailed", "")]
    /\ UNCHANGED <<projectFile, appCache, containerCache, project, hist>>

\* src: renderApps loop body — activeCacheKeys.add(cacheKey)
RenderAppsSkipsKey(active, key) == active
RenderAppsAddKey(active, key) == active \cup {key}

\* src: renderApps passes its browser to renderApp (options.browser)
RenderAppsPassesBrowser == TRUE

\* src: renderApp — existsSync(screenshotPath): return the cached result
CacheHitNever(dir, key) == FALSE
CacheHit(dir, key) == Exists(dir, key)

\* src: renderApps loop body and renderApp up to its first await: the key is
\* added to the active set; a cached PNG is returned; a missing index.html throws
AppsLoop ==
    /\ UNCHANGED notRun
    /\ pc = "apps_loop"
    /\ run.appIdx <= Len(project.apps)
    /\ hist' = [hist EXCEPT !.considered = @ \cup {CurrentAppKey}]
    /\ LET active == RenderAppsAddKey(run.activeCacheKeys, CurrentAppKey)
       IN  IF CacheHit(appCache, CurrentAppKey)
           THEN /\ run' = [run EXCEPT !.activeCacheKeys = active, !.appIdx = @ + 1]
                /\ pc' = "apps_loop"
           ELSE \E indexExists \in BOOLEAN :
                  IF indexExists
                  THEN /\ run' = [run EXCEPT !.activeCacheKeys = active]
                       /\ pc' = "app_page"
                  ELSE /\ run' = [run EXCEPT !.activeCacheKeys = active,
                                             !.error = Error("IndexNotFound", CurrentApp.id)]
                       /\ pc' = "apps_close"
    /\ UNCHANGED <<projectFile, appCache, containerCache, project, browser>>

AppsLoopEnd ==
    /\ UNCHANGED notRun
    /\ pc = "apps_loop"
    /\ run.appIdx > Len(project.apps)
    /\ pc' = "apps_close"
    /\ UNCHANGED <<projectFile, appCache, containerCache, run, project, browser, hist>>

\* src: renderApp — ownBrowser (launched only without a shared browser) and
\* browser.newPage(), both before the try block
AppNewPage ==
    /\ UNCHANGED notRun
    /\ pc = "app_page"
    /\ \E ok \in BOOLEAN :
         LET own == IF RenderAppsPassesBrowser THEN 0 ELSE 1
         IN  IF ok
             THEN /\ browser' = [browser EXCEPT !.ownLaunches = @ + own,
                                                !.pagesOpened = @ + 1, !.pageOpen = TRUE]
                  /\ pc' = "app_navigate"
                  /\ run' = run
             ELSE /\ browser' = [browser EXCEPT !.ownLaunches = @ + own]
                  /\ pc' = "apps_close"
                  /\ run' = [run EXCEPT !.error = Error("NewPageFailed", CurrentApp.id)]
    /\ UNCHANGED <<projectFile, appCache, containerCache, project, hist>>

\* src: renderApp, try block — setViewport, listeners, evaluateOnNewDocument
\* (window.__stsRenderComplete = false), goto(url, networkidle0)
AppNavigate ==
    /\ UNCHANGED notRun
    /\ pc = "app_navigate"
    /\ \E ok \in BOOLEAN :
         IF ok
         THEN /\ pc' = "app_wait"
              /\ run' = run
         ELSE /\ pc' = "app_pageclose"
              /\ run' = [run EXCEPT !.error = Error("NavigationFailed", CurrentApp.id)]
    /\ UNCHANGED <<projectFile, appCache, containerCache, project, browser, hist>>

\* src: renderApp — waitForFunction('window.__stsRenderComplete === true',
\* {timeout: RENDER_TIMEOUT_MS}); a rejection becomes the timeout error
WaitForFunctionNoTimeout(signalled, appId) == NoError
WaitForFunction(signalled, appId) ==
    IF signalled THEN NoError
    ELSE [kind |-> "AppRenderTimeout", subject |-> appId, timeoutMs |-> RENDER_TIMEOUT_MS]

AppWait ==
    /\ UNCHANGED notRun
    /\ pc = "app_wait"
    /\ \E signalled \in BOOLEAN :
         LET err == WaitForFunction(signalled, CurrentApp.id)
         IN  /\ run' = [run EXCEPT !.error = err]
             /\ hist' = [hist EXCEPT !.neverReady = IF signalled THEN @ ELSE CurrentApp.id]
             /\ pc' = IF err = NoError THEN "app_shot" ELSE "app_pageclose"
    /\ UNCHANGED <<projectFile, appCache, containerCache, project, browser>>

\* src: renderApp — page.screenshot clipped to (width, height), writeFile
AppScreenshot ==
    /\ UNCHANGED notRun
    /\ pc = "app_shot"
    /\ \E ok \in BOOLEAN :
         IF ok
         THEN /\ appCache' = WriteFile(appCache, CurrentAppKey, project.resolution)
              /\ hist' = [hist EXCEPT !.appWrites = @ \cup {CurrentAppKey}]
              /\ run' = run
         ELSE /\ appCache' = appCache
              /\ hist' = hist
              /\ run' = [run EXCEPT !.error = Error("ScreenshotFailed", CurrentApp.id)]
    /\ pc' = "app_pageclose"
    /\ UNCHANGED <<projectFile, containerCache, project, browser>>

\* src: renderApp, finally — page.close()
AppPageClose ==
    /\ UNCHANGED notRun
    /\ pc = "app_pageclose"
    /\ browser' = [browser EXCEPT !.pagesClosed = @ + 1, !.pageOpen = FALSE]
    /\ IF run.error = NoError
       THEN /\ run' = [run EXCEPT !.appIdx = @ + 1]
            /\ pc' = "apps_loop"
       ELSE /\ run' = run
            /\ pc' = "apps_close"
    /\ UNCHANGED <<projectFile, appCache, containerCache, project, hist>>

\* src: renderApps, finally — browser.close() on the normal and on the
\* exceptional way out
RenderAppsClosesOnSuccessOnly(err) == IF err = NoError THEN 1 ELSE 0
RenderAppsFinally(err) == 1

AppsClose ==
    /\ UNCHANGED notRun
    /\ pc = "apps_close"
    /\ browser' = [browser EXCEPT !.open = (RenderAppsFinally(run.error) = 0),
                                  !.closes = @ + RenderAppsFinally(run.error),
                                  !.phase = "ended"]
    /\ pc' = IF run.error = NoError THEN "build" ELSE "failed"
    /\ UNCHANGED <<projectFile, appCache, containerCache, run, project, hist>>

\* src: await project.build(outputName) — a rejection leaves the loop
AfterBuildIgnoringFailure(ok) == "encode"
AfterBuild(ok) == IF ok THEN "encode" ELSE "failed"

\* src: printStats, project.build(outputName), the FFmpeg option lookup and
\* makeFFmpegCommand; the build enters the fragments' timing into the context
Build ==
    /\ UNCHANGED notRun
    /\ pc = "build"
    /\ \E ok \in BOOLEAN :
         IF ok
         THEN /\ project' = [project EXCEPT !.expressionContext = @ \cup FragmentIds(project)]
              /\ pc' = AfterBuild(ok)
              /\ run' = run
         ELSE /\ project' = project
              /\ pc' = AfterBuild(ok)
              /\ run' = [run EXCEPT !.error = Error("BuildFailed", OutputName)]
    /\ UNCHANGED <<projectFile, appCache, containerCache, browser, hist>>

\* src: await runFFMpeg(ffmpegCommand) — a rejection leaves the loop
AfterEncoderIgnoringExit(ok) == "probe"
AfterEncoder(ok) == IF ok THEN "probe" ELSE "failed"

Encode ==
    /\ UNCHANGED notRun
    /\ pc = "encode"
    /\ \E ok \in BOOLEAN :
         /\ pc' = AfterEncoder(ok)
         /\ hist' = [hist EXCEPT !.encoderRuns = @ \cup {OutputName},
                                  !.encoded = IF ok THEN @ \cup {OutputName} ELSE @]
         /\ run' = [run EXCEPT !.error = IF AfterEncoder(ok) = "failed"
                                         THEN Error("EncoderFailed", OutputName) ELSE @]
    /\ UNCHANGED <<projectFile, appCache, containerCache, project, browser>>

\* src: getAssetDuration(resultPath), end of the loop body; the probe catches
\* its own failures and returns 0, so the loop always goes on
ProbeResult ==
    /\ UNCHANGED notRun
    /\ pc = "probe"
    /\ run' = [run EXCEPT !.i = @ + 1]
    /\ pc' = "loop"
    /\ UNCHANGED <<projectFile, appCache, containerCache, project, browser, hist>>

\* src: if (activeCacheKeys.size > 0) await cleanupStaleCache(...)
ReaperRuns(active) == active # {}

\* cleanupStaleCache: every PNG whose key is not in the set is unlinked
CleanupStaleCache(dir, active) == {f \in dir : f.key \in active}

Cleanup ==
    /\ UNCHANGED notRun
    /\ pc = "cleanup"
    /\ IF ReaperRuns(run.activeCacheKeys)
       THEN /\ appCache' = CleanupStaleCache(appCache, run.activeCacheKeys)
            /\ containerCache' = CleanupStaleCache(containerCache, run.activeCacheKeys)
            /\ hist' = [hist EXCEPT
                          !.reaped = TRUE,
                          !.deleted = (Keys(appCache) \cup Keys(containerCache))
                                          \ run.activeCacheKeys,
                          !.lastOK = run.option]
       ELSE /\ appCache' = appCache
            /\ containerCache' = containerCache
            /\ hist' = [hist EXCEPT !.lastOK = run.option]
    /\ pc' = "done"
    /\ UNCHANGED <<projectFile, run, project, browser>>

Next ==
    \/ EditProject \/ StartRun \/ ParseForOutput \/ LoopEnd
    \/ ContainersNext \/ ContainersDone
    \/ ContainerLaunch \/ ContainerRender \/ ContainerClose
    \/ AppsLaunch \/ AppsLoop \/ AppsLoopEnd \/ AppNewPage \/ AppNavigate
    \/ AppWait \/ AppScreenshot \/ AppPageClose \/ AppsClose
    \/ Build \/ Encode \/ ProbeResult \/ Cleanup

NoCall == [fn |-> "none"]
LibIdle == call = NoCall /\ result = NoCall

NoTiming == [stage |-> "none"]
TimingIdle == timing = NoTiming

Init == RunInit /\ CmdIdle /\ LibIdle /\ TimingIdle

Spec == Init /\ [][Next]_vars

(***************************************************************************)
(* Claims about the command assembly (checked under CmdSpec)               *)
(***************************************************************************)
\* The asset that holds stable input index k in the asset input map
HasIndex(n, k) == n \in DOMAIN assetInputMap /\ assetInputMap[n] = k

InputsFollowIndex(inputs) ==
    \A k \in 1..Len(inputs) :
        \E n \in AssetNames : HasIndex(n, k - 1) /\ inputs[k] = AssetPath(n)

LabelsFollowIndex(labels) ==
    \A l \in labels : HasIndex(l.asset, l.index)

\* C1: in the assembled command the input at position k (0-based) is the file
\* of the asset whose stable input index is k, and every label [k:v] emitted
\* for a fragment carries the index of the asset the fragment names, for every
\* project, whatever the fragments name and whatever assets are defined.
C1_InputAtIndex ==
    cstage = "assembled" =>
        /\ InputsFollowIndex(command.inputs)
        /\ InputsFollowIndex(command.simpleInputs)
        /\ LabelsFollowIndex(command.labels)
        /\ LabelsFollowIndex(command.concatLabels)

NamedAssets == Range(Flatten(sequences)) \ {NoAsset}
UnknownReferences == NamedAssets \ assets

\* C12: a project with a fragment that names an asset the project does not
\* define fails to compile (UnknownReference): no filter graph and no encoder
\* command is assembled for it.
C12_UnknownReferenceFails ==
    UnknownReferences # {} => cstage # "assembled" /\ command = NoCommand

FirstReference(name) ==
    CHOOSE i \in 1..Len(Flatten(sequences)) :
        /\ Flatten(sequences)[i] = name
        /\ \A j \in 1..(i - 1) : Flatten(sequences)[j] # name

\* C15: input indices are assigned in order of first reference over the
\* fragments of all sequences: the indices are exactly 0..m-1 for the m
\* distinct assets named, an asset named again keeps the index of its first
\* reference, and an asset first named earlier has the smaller index.
C15_FirstReferenceOrder ==
    cstage # "input" =>
        /\ DOMAIN assetInputMap = NamedAssets
        /\ {assetInputMap[n] : n \in NamedAssets} = 0..(Cardinality(NamedAssets) - 1)
        /\ \A x, y \in NamedAssets :
             FirstReference(x) < FirstReference(y) => assetInputMap[x] < assetInputMap[y]

\* a, b, a in the first sequence and c in the second: 0, 1, 0, 2
C15_Witness ==
    /\ cstage = "mapped"
    /\ sequences = <<<<"a", "b", "a">>, <<"c">>>>
    /\ assetInputMap["a"] = 0 /\ assetInputMap["b"] = 1 /\ assetInputMap["c"] = 2

(***************************************************************************)
(* Claims about the generate command (checked under Spec)                  *)
(***************************************************************************)
AllKeys == Keys(appCache) \cup Keys(containerCache)
Requested == Range(run.outputsToRender)
AppKeyFor(app) ==
    GenerateAppCacheKey(app.src, app.parameters, Title, Date, Tags, OutputName)
ContainerKeyFor(c) == GenerateCacheKey(c.htmlContent, CssText)
InIteration == pc \notin {"idle", "loop", "cleanup", "done"} /\ project # NoProject

\* C2: the cache reaper is invoked only after the encoder has finished
\* successfully for every requested output; a run that fails never invokes it
\* and deletes no cache file.
C2_ReaperInvoked ==
    /\ hist.reaped => hist.encoded = Requested
    /\ pc = "failed" => ~hist.reaped /\ hist.deleted = {}
C2_NoFileLost ==
    (~(AllKeys \subseteq Keys(appCache') \cup Keys(containerCache')))
        => pc = "cleanup" /\ hist.encoded = Requested /\ pc' = "done"
C2_ReaperOnlyAfterSuccess == [](C2_ReaperInvoked) /\ [][C2_NoFileLost]_vars

\* C2 witness: the encoder of the second output fails while the cache holds a
\* PNG that is not among the active keys; the file is still there.
C2_Witness ==
    /\ pc = "failed"
    /\ run.error.kind = "EncoderFailed"
    /\ run.i = 2
    /\ run.activeCacheKeys # {}
    /\ ~(AllKeys \subseteq run.activeCacheKeys)

C4_NoUntouchedPngAfterRun ==
    pc = "done" => AllKeys \subseteq run.activeCacheKeys

\* C5: when the PNG of an app's key exists renderApp returns it without
\* opening a page, navigating or writing; hence the second of two consecutive
\* renders of an unchanged project writes no app PNG.
C5_HitStep ==
    (pc = "apps_loop" /\ run.appIdx <= Len(project.apps) /\ Exists(appCache, CurrentAppKey))
        => /\ appCache' = appCache
           /\ browser' = browser
           /\ pc' = "apps_loop"
           /\ run'.appIdx = run.appIdx + 1
           /\ run'.error = NoError
C5_CachedAppReused ==
    [](hist.followsSame => hist.appWrites = {}) /\ [][C5_HitStep]_vars

\* C5 witness: the second of two consecutive renders of the same project
\* finished, and both its apps were taken from the cache.
C5_Witness ==
    /\ pc = "done"
    /\ hist.followsSame
    /\ Len(project.apps) = 2
    /\ Cardinality(hist.considered \cap Keys(appCache)) >= 2

\* C6: when the PNG of a container's key exists the container rasterizer
\* launches no browser and does not write the file, so the second of two
\* consecutive renders of an unchanged project writes no container PNG.
C6_CachedContainerReused ==
    /\ pc = "container_render" => ~Exists(containerCache, CurrentContainerKey)
    /\ hist.followsSame => hist.containerWrites = {}

\* C7: every overlay PNG handed to the graph of an output was rasterized at
\* exactly that output's (width, height), across any sequence of renders,
\* also when an output's resolution is changed between renders.
C7_AppsAtOutputResolution ==
    pc \in {"build", "encode"} =>
        \A i \in 1..Len(project.apps) :
            ResolutionOf(appCache, AppKeyFor(project.apps[i])) = project.resolution
C7_ContainersAtOutputResolution ==
    pc \in {"build", "encode"} =>
        \A i \in 1..Len(project.containers) :
            ResolutionOf(containerCache, ContainerKeyFor(project.containers[i]))
                = project.resolution
C7_OverlayAtOutputResolution ==
    C7_AppsAtOutputResolution /\ C7_ContainersAtOutputResolution

C9_OneBrowserPerCall ==
    browser.kind = "apps" =>
        /\ browser.launchCalls = 1
        /\ browser.ownLaunches = 0
        /\ browser.closes <= 1
        /\ browser.pagesOpened > 0 => browser.launched
        /\ browser.pageOpen =>
              browser.open /\ pc \in {"app_navigate", "app_wait", "app_shot", "app_pageclose"}
        /\ browser.pagesOpened = browser.pagesClosed + (IF browser.pageOpen THEN 1 ELSE 0)
        /\ browser.phase = "running" => browser.open /\ browser.closes = 0
        /\ browser.phase = "ended" =>
              /\ ~browser.open
              /\ ~browser.pageOpen
              /\ browser.closes = (IF browser.launched THEN 1 ELSE 0)

\* C9 witness: a renderApps call that opened two pages and ended in an error,
\* with the browser closed once.
C9_Witness ==
    /\ browser.kind = "apps"
    /\ browser.phase = "ended"
    /\ browser.pagesOpened = 2
    /\ browser.pagesClosed = 2
    /\ browser.closes = 1
    /\ run.error # NoError

\* C10: each output of a run is rendered from a Project freshly parsed for it,
\* whose expression context starts empty: nothing computed while rendering one
\* output is visible when the next is rendered.
C10_FreshProjectPerOutput ==
    InIteration /\ pc # "failed" =>
        /\ project.parsedFor = OutputName
        /\ pc \notin {"encode", "probe"} => project.expressionContext = {}

\* C10 witness: the project of the second output has just been parsed, after
\* the first output was built and encoded.
C10_Witness ==
    /\ pc = "containers"
    /\ run.i = 2
    /\ hist.encoded = {"yt"}
    /\ project.parsedFor = "ig"
    /\ project.expressionContext = {}

\* The steps of one output
Rasterizing ==
    {"containers", "container_launch", "container_render", "container_close",
     "apps_launch", "apps_loop", "app_page", "app_navigate", "app_wait", "app_shot",
     "app_pageclose", "apps_close"}
\* The steps that only release what a failed step holds (finally blocks)
Releasing == {"container_close", "app_pageclose", "apps_close"}

C23_StepOrder ==
    /\ (pc' \in Rasterizing /\ pc \notin Rasterizing) =>
          pc = "loop" /\ project'.parsedFor = OutputName
    /\ (pc' = "build" /\ pc # "build") => pc \in Rasterizing /\ run.error = NoError
    /\ (pc' = "encode" /\ pc # "encode") => pc = "build"
    /\ (pc' = "probe" /\ pc # "probe") => pc = "encode"
    /\ (pc \notin {"idle", "done", "failed"} /\ run'.i # run.i) =>
          /\ pc = "probe" /\ run'.i = run.i + 1
          /\ OutputName \in hist.encoded
    /\ pc = "failed" => (pc' = "failed" \/ (run'.error = NoError /\ hist'.encoderRuns = {})
                         \/ pc' = "idle")

C23_NothingAfterFailure ==
    /\ (pc \notin {"idle", "done"} /\ run.error # NoError) => pc \in Releasing \cup {"failed"}
    /\ pc \in Rasterizing \cup {"loop", "build", "encode", "probe"} =>
          \A k \in 1..(run.i - 1) : run.outputsToRender[k] \in hist.encoded
    /\ pc \in Rasterizing \cup {"build", "encode"} => OutputName \notin hist.encoderRuns

\* C23: for each output of a run the steps are parse, rasterize overlays,
\* build graph, encode, each started only after the previous one completed; no
\* step of the next output starts before the encoder of the current one has
\* exited; after a step has failed no later step of that output or of a later
\* output runs and the run ends failed.
C23_StepsInOrder ==
    /\ []C23_NothingAfterFailure
    /\ [][C23_StepOrder]_vars

\* the second output is being encoded after its overlays were rasterized, the
\* first one having been encoded
C23_Witness ==
    /\ pc = "encode"
    /\ run.i = 2
    /\ hist.encoded = {"yt"}
    /\ project.apps # <<>>
    /\ project.parsedFor = "ig"
    /\ hist.appWrites # {}

(***************************************************************************)
(* Expression evaluator (expression-parser.ts)                             *)
(***************************************************************************)
MaxRefs == 2               \* fragment references per expression

\* JavaScript values: numbers, objects, undefined
Undefined == [kind |-> "undefined"]
Num(n) == [kind |-> "num", num |-> n]
Obj(f) == [kind |-> "obj", fields |-> f]

\* src: FragmentData — { time: { start, end, duration } }
FragmentData(start, duration) ==
    Obj([k \in {"time"} |->
            Obj([t \in {"start", "end", "duration"} |->
                    Num(CASE t = "start" -> start
                          [] t = "end" -> start + duration
                          [] OTHER -> duration)])])

\* value[part]: a field of an object, undefined on anything else
GetPart(value, part) ==
    IF value.kind = "obj" /\ part \in DOMAIN value.fields
    THEN value.fields[part] ELSE Undefined

\* prop.split('.') / the text of a dotted path
RECURSIVE PropText(_)
PropText(parts) ==
    IF Len(parts) = 1 THEN parts[1] ELSE parts[1] \o "." \o PropText(Tail(parts))

ExprFragmentIds == {"intro", "ending", "ghost"}
PropPaths == {<<"time", "start">>, <<"time", "duration">>, <<"time", "invalid">>,
              <<"size">>, <<"time", "start", "ms">>, <<"time">>}
FragmentRefs == [id : ExprFragmentIds, prop : PropPaths]

RefText(ref) == "url(#" \o ref.id \o "." \o PropText(ref.prop) \o ")"

RECURSIVE TermsText(_)
TermsText(refs) ==
    IF refs = <<>> THEN "" ELSE RefText(Head(refs)) \o " + " \o TermsText(Tail(refs))

\* src: parseExpression — the compiled expression keeps the original text; the
\* references are the matches of the evaluator's pattern on that text, in
\* order. The expressions of the model are sums of references and a constant.
ParseExpression(refs, const) ==
    [original |-> "calc(" \o TermsText(refs) \o ToString(const) \o ")",
     refs     |-> refs,
     const    |-> const]

FragmentNotFound(id, original) ==
    [kind |-> "FragmentNotFound", id |-> id, prop |-> "", original |-> original]
PropertyNotFound(prop, id, original) ==
    [kind |-> "PropertyNotFound", id |-> id, prop |-> prop, original |-> original]
Threw(error) == [ok |-> FALSE, error |-> error]
Returned(value) == [ok |-> TRUE, value |-> value]

\* src: evaluateCompiledExpression, the inner loop over prop.split('.'):
\* value = value[part]; undefined at any step throws
RECURSIVE NavigatePath(_, _)
NavigatePath(value, parts) ==
    IF parts = <<>> THEN value
    ELSE LET next == GetPart(value, Head(parts))
         IN  IF next = Undefined THEN Undefined ELSE NavigatePath(next, Tail(parts))

\* src: evaluateCompiledExpression, the loop over the references: the first
\* reference that cannot be resolved throws; the others are bound
RECURSIVE BindRefs(_, _, _)
BindRefs(refs, context, original) ==
    IF refs = <<>> THEN Returned(<<>>)
    ELSE LET ref == Head(refs)
         IN  IF ref.id \notin DOMAIN context
             THEN Threw(FragmentNotFound(ref.id, original))
             ELSE LET value == NavigatePath(context[ref.id], ref.prop)
                  IN  IF value = Undefined
                      THEN Threw(PropertyNotFound(PropText(ref.prop), ref.id, original))
                      ELSE LET rest == BindRefs(Tail(refs), context, original)
                           IN  IF rest.ok THEN Returned(<<value>> \o rest.value) ELSE rest

RECURSIVE SumOf(_)
SumOf(values) == IF values = <<>> THEN 0 ELSE Head(values).num + SumOf(Tail(values))

\* src: evaluateCompiledExpression (the variant drops the references to
\* fragments the context lacks instead of throwing)
EvaluateMissingAsZero(compiled, context) ==
    LET known == SelectSeq(compiled.refs, LAMBDA r : r.id \in DOMAIN context)
        bound == BindRefs(known, context, compiled.original)
    IN  IF ~bound.ok THEN bound
        ELSE IF \E i \in 1..Len(bound.value) : bound.value[i].kind # "num"
        THEN Returned("NaN")
        ELSE Returned(SumOf(bound.value) + compiled.const)
EvaluateCompiledExpression(compiled, context) ==
    LET bound == BindRefs(compiled.refs, context, compiled.original)
    IN  IF ~bound.ok THEN bound
        ELSE IF \E i \in 1..Len(bound.value) : bound.value[i].kind # "num"
        THEN Returned("NaN")
        ELSE Returned(SumOf(bound.value) + compiled.const)

\* Expression contexts: some of the fragments have their timing entered
ExprContexts ==
    UNION {[ids -> {FragmentData(0, 3000), FragmentData(8000, 3000)}]
              : ids \in SUBSET {"intro", "ending"}}

\* evaluateCompiledExpression(compiled, context); the function only reads the
\* context, which is returned with the outcome
EvaluateCall ==
    /\ UNCHANGED notLib
    /\ call = NoCall
    /\ \E refs \in SeqsUpTo(FragmentRefs, MaxRefs), const \in {0, 1000},
          context \in ExprContexts :
         LET compiled == ParseExpression(refs, const)
         IN  /\ call' = [fn |-> "evaluateCompiledExpression", compiled |-> compiled,
                         context |-> context]
             /\ result' = [outcome |-> EvaluateCompiledExpression(compiled, context),
                           context |-> context]

(***************************************************************************)
(* Claims about the expression evaluator (checked under LibSpec)           *)
(***************************************************************************)
\* The property paths a FragmentData record has
FragmentDataPaths == {<<"time">>, <<"time", "start">>, <<"time", "end">>,
                      <<"time", "duration">>}
LacksFragment(ref, context) == ref.id \notin DOMAIN context
LacksPath(ref, context) == ref.id \in DOMAIN context /\ ref.prop \notin FragmentDataPaths

NumberOperand(n) == [isRef |-> FALSE, num |-> n, ref |-> [id |-> "", prop |-> <<"">>]]
RefOperand(ref) == [isRef |-> TRUE, num |-> 0, ref |-> ref]
OperandText(operand) == IF operand.isRef THEN RefText(operand.ref) ELSE ToString(operand.num)

QuotientOperands ==
    {NumberOperand(n) : n \in {0, 1000, 6000}} \cup
    {RefOperand([id |-> "intro", prop |-> prop]) :
        prop \in {<<"time", "start">>, <<"time", "duration">>}}

\* src: parseExpression for calc(<numerator> / <divisor>)
ParseQuotient(numerator, divisor) ==
    [original  |-> "calc(" \o OperandText(numerator) \o " / " \o OperandText(divisor) \o ")",
     numerator |-> numerator,
     divisor   |-> divisor,
     refs      |-> SelectSeq(<<numerator, divisor>>, LAMBDA o : o.isRef)]

\* JavaScript's a / b on numbers, which is what the expression library's
\* division operator computes: a fraction, or Infinity / NaN for a zero divisor
JsNumber(kind, num, den) == [kind |-> kind, num |-> num, den |-> den]
JsDivide(a, b) ==
    IF b # 0 THEN JsNumber("finite", a, b)
    ELSE IF a = 0 THEN JsNumber("NaN", 0, 0)
    ELSE IF a > 0 THEN JsNumber("Infinity", 0, 0)
    ELSE JsNumber("-Infinity", 0, 0)

EvaluationFailed(original) ==
    [kind |-> "EvaluationFailed", id |-> "", prop |-> "", original |-> original]

\* The value of an operand once its references are bound
OperandValue(operand, context) ==
    IF operand.isRef THEN NavigatePath(context[operand.ref.id], operand.ref.prop).num
    ELSE operand.num

\* src: evaluateCompiledExpression for a quotient: the references are bound as
\* for any expression, then expression.evaluate divides; the catch is reached
\* only when evaluate throws, which a division never does
EvaluateQuotient(compiled, context) ==
    LET bound == BindRefs([i \in 1..Len(compiled.refs) |-> compiled.refs[i].ref],
                          context, compiled.original)
    IN  IF ~bound.ok THEN bound
        ELSE Returned(JsDivide(OperandValue(compiled.numerator, context),
                               OperandValue(compiled.divisor, context)))

EvaluateQuotientCall ==
    /\ UNCHANGED notLib
    /\ call = NoCall
    /\ \E numerator \in QuotientOperands, divisor \in QuotientOperands,
          context \in ExprContexts :
         LET compiled == ParseQuotient(numerator, divisor)
         IN  /\ call' = [fn |-> "evaluateQuotient", compiled |-> compiled, context |-> context]
             /\ result' = [outcome |-> EvaluateQuotient(compiled, context)]

DivisorIsZero ==
    /\ call.fn = "evaluateQuotient"
    /\ \A i \in 1..Len(call.compiled.refs) : call.compiled.refs[i].ref.id \in DOMAIN call.context
    /\ OperandValue(call.compiled.divisor, call.context) = 0

\* C21: evaluating an expression that divides by zero (a literal 0 divisor or
\* a reference that resolves to 0) raises an error that carries the original
\* expression text; no numeric result is returned.
C21_DivisionByZeroThrows ==
    DivisorIsZero =>
        /\ ~result.outcome.ok
        /\ result.outcome.error.original = call.compiled.original

(***************************************************************************)
(* Time units in expressions (expression-parser.ts)                        *)
(***************************************************************************)
\* Texts are sequences of characters; numbers are counted in thousandths so
\* that three decimal places stay exact
DigitChars == <<"0", "1", "2", "3", "4", "5", "6", "7", "8", "9">>
IsDigit(ch) == \E d \in 1..10 : DigitChars[d] = ch
DigitValue(ch) == (CHOOSE d \in 1..10 : DigitChars[d] = ch) - 1
\* \w over the characters the texts are written with
IsWordChar(ch) == IsDigit(ch) \/ ch \in {"a", "c", "l", "m", "s", "_"}

RECURSIVE DigitsOf(_)
DigitsOf(n) == IF n < 10 THEN <<DigitChars[n + 1]>>
               ELSE DigitsOf(n \div 10) \o <<DigitChars[(n % 10) + 1]>>

RECURSIVE StripTrailingZeros(_)
StripTrailingZeros(digits) ==
    IF digits # <<>> /\ digits[Len(digits)] = "0"
    THEN StripTrailingZeros(SubSeq(digits, 1, Len(digits) - 1)) ELSE digits

\* String(x) for a non-negative number given in thousandths
NumberToString(thousandths) ==
    LET frac == StripTrailingZeros(<<DigitChars[((thousandths % 1000) \div 100) + 1],
                                     DigitChars[((thousandths % 100) \div 10) + 1],
                                     DigitChars[(thousandths % 10) + 1]>>)
    IN  DigitsOf(thousandths \div 1000) \o (IF frac = <<>> THEN <<>> ELSE <<".">> \o frac)

\* The length of the run of digits that starts at position i
RECURSIVE DigitRun(_, _)
DigitRun(text, i) ==
    IF i <= Len(text) /\ IsDigit(text[i]) THEN 1 + DigitRun(text, i + 1) ELSE 0

RECURSIVE WholeValue(_)
WholeValue(digits) ==
    IF digits = <<>> THEN 0
    ELSE WholeValue(SubSeq(digits, 1, Len(digits) - 1)) * 10 + DigitValue(digits[Len(digits)])

\* parseFloat of digits with an optional fraction of up to three digits, in
\* thousandths
ParseFloatThousandths(number) ==
    LET whole == DigitRun(number, 1)
        frac  == IF whole < Len(number) THEN SubSeq(number, whole + 2, Len(number)) ELSE <<>>
        pad   == frac \o [i \in 1..(3 - Len(frac)) |-> "0"]
    IN  WholeValue(SubSeq(number, 1, whole)) * 1000 + WholeValue(pad)

\* The length of the match of (\d+(?:\.\d+)?) at position i when it is followed
\* by the unit and then by no word character; 0 when the pattern does not
\* match at i
NumberWithUnitAt(text, i, unit) ==
    LET whole  == DigitRun(text, i)
        frac   == IF whole > 0 /\ i + whole <= Len(text) /\ text[i + whole] = "."
                  THEN DigitRun(text, i + whole + 1) ELSE 0
        number == IF frac > 0 THEN whole + 1 + frac ELSE whole
        after  == i + number + Len(unit)
        UnitAt(n) == /\ i + n + Len(unit) - 1 <= Len(text)
                     /\ SubSeq(text, i + n, i + n + Len(unit) - 1) = unit
                     /\ (i + n + Len(unit) > Len(text) \/ ~IsWordChar(text[i + n + Len(unit)]))
    IN  IF whole = 0 THEN 0
        ELSE IF UnitAt(number) THEN number
        ELSE IF frac > 0 /\ UnitAt(whole) THEN whole
        ELSE 0

\* text.replace(/(\d+(?:\.\d+)?)<unit>(?!\w)/g, (_, num) => String(parseFloat(num) * factor)),
\* scanning from position i
RECURSIVE ReplaceUnit(_, _, _, _)
ReplaceUnit(text, i, unit, factor) ==
    IF i > Len(text) THEN <<>>
    ELSE LET n == NumberWithUnitAt(text, i, unit)
         IN  IF n = 0 THEN <<text[i]>> \o ReplaceUnit(text, i + 1, unit, factor)
             ELSE NumberToString(ParseFloatThousandths(SubSeq(text, i, i + n - 1)) * factor)
                  \o ReplaceUnit(text, i + n + Len(unit), unit, factor)

\* text.replace(/calc\(/g, '(') for a text that starts with calc(
RemoveCalc(text) ==
    IF Len(text) >= 5 /\ SubSeq(text, 1, 5) = <<"c", "a", "l", "c", "(">>
    THEN SubSeq(text, 5, Len(text)) ELSE text

\* src: transformExpressionToVariables — calc( becomes (, then the seconds
\* rule, then the milliseconds rule (the variant scales milliseconds too)
TransformScalingEveryUnit(expression) ==
    ReplaceUnit(ReplaceUnit(RemoveCalc(expression), 1, <<"s">>, 1000), 1, <<"m", "s">>, 1000)
TransformExpressionToVariables(expression) ==
    ReplaceUnit(ReplaceUnit(RemoveCalc(expression), 1, <<"s">>, 1000), 1, <<"m", "s">>, 1)

ParseError(original) == [kind |-> "ParseError", id |-> "", prop |-> "", original |-> original]

\* parser.parse and evaluate for a parenthesised number; any other text is a
\* parse error
EvaluateNumberText(transformed, original) ==
    IF /\ Len(transformed) >= 3
       /\ transformed[1] = "(" /\ transformed[Len(transformed)] = ")"
       /\ LET number == SubSeq(transformed, 2, Len(transformed) - 1)
              whole  == DigitRun(number, 1)
          IN  /\ whole > 0
              /\ \/ whole = Len(number)
                 \/ /\ whole + 1 < Len(number)
                    /\ number[whole + 1] = "."
                    /\ DigitRun(number, whole + 2) = Len(number) - whole - 1
    THEN Returned(ParseFloatThousandths(SubSeq(transformed, 2, Len(transformed) - 1)))
    ELSE Threw(ParseError(original))

\* The literals: a whole part and a fraction of one or two digits or none
UnitLiterals == [whole : {0, 5, 12, 500}, frac : {<<>>, <<"5">>, <<"2", "5">>}]
LiteralText(literal) ==
    DigitsOf(literal.whole) \o (IF literal.frac = <<>> THEN <<>> ELSE <<".">> \o literal.frac)
CalcText(literal, unit) == <<"c", "a", "l", "c", "(">> \o LiteralText(literal) \o unit \o <<")">>

\* parseExpression('calc(<r><unit>)') evaluated against an empty context
EvaluateUnitCall ==
    /\ UNCHANGED notLib
    /\ call = NoCall
    /\ \E literal \in UnitLiterals, unit \in {<<"s">>, <<"m", "s">>} :
         /\ call' = [fn |-> "evaluateUnit", literal |-> literal, unit |-> unit,
                     original |-> CalcText(literal, unit)]
         /\ result' = [outcome |->
                          EvaluateNumberText(TransformExpressionToVariables(CalcText(literal, unit)),
                                             CalcText(literal, unit))]

\* The number a literal denotes, in thousandths
Denotes(literal) ==
    literal.whole * 1000 +
    (CASE literal.frac = <<>>         -> 0
       [] literal.frac = <<"5">>      -> 500
       [] literal.frac = <<"2", "5">> -> 250)

MaxAssets == 2             \* <asset> elements of the project file

NaN == [isNaN |-> TRUE, value |-> 0]
Number(n) == [isNaN |-> FALSE, value |-> n]

\* What running ffprobe on a file gives: its stdout, or a rejected promise
ProbeOutcomes == {[exit |-> "ok", stdout |-> "12.5"], [exit |-> "ok", stdout |-> "N/A"],
                  [exit |-> "error", stdout |-> ""]}

\* parseFloat(stdout.trim()), in thousandths so that the product stays integral
ParseFloatTimes1000(text) ==
    CASE text = "12.5" -> Number(12500)
      [] text = "3"    -> Number(3000)
      [] OTHER         -> NaN

\* src: getAssetDuration — 0 for an image, the rounded milliseconds for a
\* number, and 0 both when the output is not a number and when ffprobe fails
GetAssetDuration(probe, type) ==
    IF type = "image" THEN 0
    ELSE IF probe.exit = "ok"
         THEN IF ParseFloatTimes1000(probe.stdout).isNaN THEN 0
              ELSE ParseFloatTimes1000(probe.stdout).value
         ELSE 0

AssetElements == [name : {"a", "b"}, type : {"video", "image"}, probe : ProbeOutcomes]

\* src: extractAssetFromElement — the asset record, with the probed duration
ExtractAssetFromElement(element) ==
    [name |-> element.name, path |-> AssetPath(element.name), type |-> element.type,
     duration |-> GetAssetDuration(element.probe, element.type)]

\* src: processAssets — assetsMap.set(asset.name, asset) for each element in
\* document order
RECURSIVE ProcessAssets(_, _)
ProcessAssets(elements, assetsMap) ==
    IF elements = <<>> THEN assetsMap
    ELSE LET asset == ExtractAssetFromElement(Head(elements))
         IN  ProcessAssets(Tail(elements), (asset.name :> asset) @@ assetsMap)

\* prepareProject(html, projectPath): the assets of the project structure
PrepareProjectCall ==
    /\ UNCHANGED notLib
    /\ call = NoCall
    /\ \E elements \in SeqsUpTo(AssetElements, MaxAssets) :
         /\ call' = [fn |-> "prepareProject", elements |-> elements]
         /\ result' = [outcome |-> Returned(ProcessAssets(elements, <<>>))]

ProbeFails(element) ==
    /\ element.type # "image"
    /\ \/ element.probe.exit = "error"
       \/ ParseFloatTimes1000(element.probe.stdout).isNaN

\* C13: when probing the duration of an asset fails (the probe process errors
\* or its output is not a number) the build fails for that asset: no project
\* structure with a substitute duration is returned.
C13_ProbeFailureFailsBuild ==
    (/\ call.fn = "prepareProject"
     /\ \E i \in 1..Len(call.elements) : ProbeFails(call.elements[i]))
        => ~result.outcome.ok

(***************************************************************************)
(* Sequence timeline (ffmpeg-generator.ts)                                 *)
(***************************************************************************)
MaxTimelineFragments == 2  \* fragments of the sequence laid on the timeline

Absent == "undefined"      \* a style the fragment does not carry

\* src: parseDuration — /^(-?[\d.]+)s$/ then parseFloat, anything else is 0
ParseDuration(duration) ==
    CASE duration = "5s"  -> 5
      [] duration = "2s"  -> 2
      [] duration = "1s"  -> 1
      [] duration = "0s"  -> 0
      [] duration = "-1s" -> -1
      [] duration = "-2s" -> -2
      [] OTHER            -> 0      \* "100%", "5" and the like do not match

\* styles[name] || '0s'
OrZeroSeconds(style) == IF style = Absent THEN "0s" ELSE style

FragmentStyles ==
    [width : {Absent, "5s", "2s", "100%"}, marginLeft : {Absent, "-1s", "2s"},
     marginRight : {Absent, "1s"}]

\* src: buildSequenceTimeline — the cursor moves by margin-left, the fragment
\* starts there and lasts its width, the cursor moves on by margin-right
RECURSIVE BuildSequenceTimeline(_, _)
BuildSequenceTimeline(fragments, absolutePosition) ==
    IF fragments = <<>> THEN <<>>
    ELSE LET styles          == Head(fragments)
             marginLeft      == ParseDuration(OrZeroSeconds(styles.marginLeft))
             marginRight     == ParseDuration(OrZeroSeconds(styles.marginRight))
             durationSeconds == ParseDuration(OrZeroSeconds(styles.width))
             absoluteStart   == absolutePosition + marginLeft
             absoluteEnd     == absoluteStart + durationSeconds
         IN  <<[durationSeconds |-> durationSeconds, absoluteStart |-> absoluteStart,
                absoluteEnd |-> absoluteEnd, marginLeft |-> marginLeft,
                marginRight |-> marginRight]>>
             \o BuildSequenceTimeline(Tail(fragments), absoluteEnd + marginRight)

\* buildSequenceTimeline(sequence, sequenceIndex), the cursor starting at 0
BuildSequenceTimelineCall ==
    /\ UNCHANGED notLib
    /\ call = NoCall
    /\ \E fragments \in SeqsUpTo(FragmentStyles, MaxTimelineFragments) :
         /\ call' = [fn |-> "buildSequenceTimeline", fragments |-> fragments]
         /\ result' = [outcome |-> Returned(BuildSequenceTimeline(fragments, 0))]

\* C14: every fragment placed on a sequence timeline starts at 0 or later and
\* lasts longer than 0, whatever margins and widths the fragments declare.
C14_StartsAndDurationsValid ==
    call.fn = "buildSequenceTimeline" =>
        \A i \in 1..Len(result.outcome.value) :
            /\ result.outcome.value[i].absoluteStart >= 0
            /\ result.outcome.value[i].durationSeconds > 0

(***************************************************************************)
(* Filter graph of a project (generator.ts, StreamBuilder)                 *)
(***************************************************************************)
\* The StreamDAG: its filters in insertion order and its label counter
EmptyDAG == [filters |-> <<>>, counter |-> 0]
LabelOf(k) == "L" \o ToString(k)

\* dag.label(): the next fresh label, the counter moved on
DagLabel(dag) == [dag |-> [dag EXCEPT !.counter = @ + 1], label |-> LabelOf(dag.counter)]

\* dag.add(filter)
DagAdd(dag, filter) == [dag EXCEPT !.filters = Append(@, filter)]

MakeFilter(name, inputs, output, options) ==
    [name |-> name, inputs |-> inputs, output |-> output, options |-> options]
\* A number of seconds, as the quotient ms / 1000 gives it
Seconds(ms) == [whole |-> ms \div 1000, thousandths |-> ms % 1000]
NoOptions == [duration |-> Seconds(0), offset |-> Seconds(0)]

\* A StreamBuilder is the dag together with the current label
Stream(dag, label) == [dag |-> dag, label |-> label]

\* dag.from(`${inputIndex}:v`)
InputLabel(inputIndex) == ToString(inputIndex) \o ":v"

\* src: StreamBuilder.scale
Scale(stream) ==
    LET minted == DagLabel(stream.dag)
    IN  Stream(DagAdd(minted.dag, MakeFilter("scale", <<stream.label>>, minted.label, NoOptions)),
               minted.label)

\* src: StreamBuilder.fps (the variant writes to the label it reads)
FpsInPlace(stream) ==
    Stream(DagAdd(stream.dag, MakeFilter("fps", <<stream.label>>, stream.label, NoOptions)),
           stream.label)
Fps(stream) ==
    LET minted == DagLabel(stream.dag)
    IN  Stream(DagAdd(minted.dag, MakeFilter("fps", <<stream.label>>, minted.label, NoOptions)),
               minted.label)

\* src: StreamBuilder.copyTo
CopyTo(stream, outputLabel) ==
    Stream(DagAdd(stream.dag, MakeFilter("copy", <<stream.label>>, outputLabel, NoOptions)),
           outputLabel)

\* src: StreamBuilder.xfade
Xfade(stream, otherLabel, options) ==
    LET minted == DagLabel(stream.dag)
    IN  Stream(DagAdd(minted.dag,
                      MakeFilter("xfade", <<stream.label, otherLabel>>, minted.label, options)),
               minted.label)

\* src: StreamBuilder.xfadeTo
XfadeTo(stream, otherLabel, outputLabel, options) ==
    Stream(DagAdd(stream.dag,
                  MakeFilter("xfade", <<stream.label, otherLabel>>, outputLabel, options)),
           outputLabel)

\* src: StreamUtils.concat without an output label
StreamUtilsConcat(dag, inputs) ==
    LET minted == DagLabel(dag)
    IN  Stream(DagAdd(minted.dag, MakeFilter("concat", inputs, minted.label, NoOptions)),
               minted.label)

\* src: StreamUtils.concatTo
StreamUtilsConcatTo(dag, inputs, outputLabel) ==
    Stream(DagAdd(dag, MakeFilter("concat", inputs, outputLabel, NoOptions)), outputLabel)

\* The assets of the projects whose graph is built, and their input indices
DagAssetTypes == [a |-> "video", c |-> "audio"]
DagAssetIndexMap == [a |-> 0, c |-> 1]
DagFragments == [assetName : {"a", "c"}, duration : {3000}, overlayLeft : {0, -500, -1000}]

\* assetIndexMap.get(name) ?? 0
InputIndexOrZero(map, name) == IF name \in DOMAIN map THEN map[name] ELSE 0

\* dag.from(`${inputIndex}:v`).scale({...}).fps(30) for each fragment in turn:
\* the dag after all of them and their labels
RECURSIVE NormalizedStreams(_, _, _, _)
NormalizedStreams(dag, fragments, map, labels) ==
    IF fragments = <<>> THEN [dag |-> dag, labels |-> labels]
    ELSE LET s == Fps(Scale(Stream(dag, InputLabel(InputIndexOrZero(map, Head(fragments).assetName)))))
         IN  NormalizedStreams(s.dag, Tail(fragments), map, Append(labels, s.label))

\* src: buildConcatGraph
BuildConcatGraph(dag, fragments, map, outputLabel) ==
    LET streams == NormalizedStreams(dag, fragments, map, <<>>)
    IN  StreamUtilsConcatTo(streams.dag, streams.labels, outputLabel).dag

RECURSIVE SumDurations(_)
SumDurations(fragments) ==
    IF fragments = <<>> THEN 0 ELSE Head(fragments).duration + SumDurations(Tail(fragments))

\* src: buildHybridGraph, the first loop — the 0-based index of the last
\* fragment of the non-overlapping prefix
ConcatEnd(fragments) ==
    LET overlapping == {j \in 2..Len(fragments) : fragments[j].overlayLeft # 0}
    IN  IF overlapping = {} THEN Len(fragments) - 1
        ELSE (CHOOSE j \in overlapping : \A k \in overlapping : j <= k) - 2

Abs(n) == IF n < 0 THEN -n ELSE n

\* src: buildHybridGraph, the options of one transition — timeOffset is the
\* cursor before the fragment; the code adds overlayLeft to it and divides by
\* 1000
TransitionOptionsBeforeOverlap(timeOffset, currFragment) ==
    [duration |-> Seconds(Abs(currFragment.overlayLeft)), offset |-> Seconds(timeOffset)]
TransitionOptions(timeOffset, currFragment) ==
    [duration |-> Seconds(Abs(currFragment.overlayLeft)),
     offset   |-> Seconds(timeOffset + currFragment.overlayLeft)]

\* src: buildHybridGraph, the while loop — the fragments from index next on are
\* cross-faded onto the current stream; the last one writes outputLabel.  The
\* result is the stream and timeOffset at the end of the loop.
RECURSIVE XfadeRemaining(_, _, _, _, _, _)
XfadeRemaining(currentStream, fragments, next, timeOffset, map, outputLabel) ==
    IF next > Len(fragments) THEN [stream |-> currentStream, timeOffset |-> timeOffset]
    ELSE LET currFragment == fragments[next]
             nextStream   == Fps(Scale(Stream(currentStream.dag,
                                 InputLabel(InputIndexOrZero(map, currFragment.assetName)))))
             options      == TransitionOptions(timeOffset, currFragment)
             current      == Stream(nextStream.dag, currentStream.label)
             faded        == IF next = Len(fragments)
                             THEN XfadeTo(current, nextStream.label, outputLabel, options)
                             ELSE Xfade(current, nextStream.label, options)
         IN  XfadeRemaining(faded, fragments, next + 1,
                            timeOffset + currFragment.overlayLeft + currFragment.duration,
                            map, outputLabel)

\* src: buildHybridGraph, its local state when it returns
HybridState(dag, fragments, map, outputLabel) ==
    LET concatEnd == ConcatEnd(fragments)
    IN  IF concatEnd >= 1
        THEN LET prefix  == SubSeq(fragments, 1, concatEnd + 1)
                 streams == NormalizedStreams(dag, prefix, map, <<>>)
             IN  XfadeRemaining(StreamUtilsConcat(streams.dag, streams.labels), fragments,
                                concatEnd + 2, SumDurations(prefix), map, outputLabel)
        ELSE XfadeRemaining(Fps(Scale(Stream(dag,
                                InputLabel(InputIndexOrZero(map, fragments[1].assetName))))),
                            fragments, 2, fragments[1].duration, map, outputLabel)

\* src: buildHybridGraph
BuildHybridGraph(dag, fragments, map, outputLabel) ==
    HybridState(dag, fragments, map, outputLabel).stream.dag

\* src: generateSequenceGraph
GenerateSequenceGraph(dag, fragments, map, outputLabel) ==
    IF Len(fragments) = 0 THEN dag
    ELSE IF Len(fragments) = 1
    THEN CopyTo(Stream(dag, InputLabel(InputIndexOrZero(map, fragments[1].assetName))),
                outputLabel).dag
    ELSE IF \A i \in 1..Len(fragments) : fragments[i].overlayLeft = 0
    THEN BuildConcatGraph(dag, fragments, map, outputLabel)
    ELSE BuildHybridGraph(dag, fragments, map, outputLabel)

\* src: buildDAG, the loop over the video sequences
RECURSIVE SequenceGraphs(_, _, _, _)
SequenceGraphs(dag, videoSequences, map, sequenceOutputs) ==
    IF videoSequences = <<>> THEN [dag |-> dag, labels |-> sequenceOutputs]
    ELSE LET minted == DagLabel(dag)
         IN  SequenceGraphs(GenerateSequenceGraph(minted.dag, Head(videoSequences), map,
                                                  minted.label),
                            Tail(videoSequences), map, Append(sequenceOutputs, minted.label))

\* src: buildDAG
BuildDAG(projectSequences, assetTypes, map) ==
    LET videoSequences ==
            SelectSeq(projectSequences,
                      LAMBDA fragments : \E i \in 1..Len(fragments) :
                          /\ fragments[i].assetName \in DOMAIN assetTypes
                          /\ assetTypes[fragments[i].assetName] \in {"video", "image"})
        graphs == SequenceGraphs(EmptyDAG, videoSequences, map, <<>>)
    IN  IF projectSequences = <<>> \/ videoSequences = <<>> THEN EmptyDAG
        ELSE IF Len(graphs.labels) = 1
        THEN CopyTo(Stream(graphs.dag, graphs.labels[1]), "outv").dag
        ELSE StreamUtilsConcatTo(graphs.dag, graphs.labels, "outv").dag

\* The sequences after the first one: a single fragment, a concat pair, a
\* cross-faded pair
FurtherSequences ==
    {<<[assetName |-> "a", duration |-> 3000, overlayLeft |-> 0]>>,
     <<[assetName |-> "a", duration |-> 3000, overlayLeft |-> 0],
       [assetName |-> "c", duration |-> 3000, overlayLeft |-> 0]>>,
     <<[assetName |-> "a", duration |-> 3000, overlayLeft |-> 0],
       [assetName |-> "a", duration |-> 3000, overlayLeft |-> -500]>>}

\* buildDAG(project)
BuildDAGCall ==
    /\ UNCHANGED notLib
    /\ call = NoCall
    /\ \E first \in SeqsUpTo(DagFragments, MaxFragments),
          rest \in SeqsUpTo(FurtherSequences, MaxSequences) :
         /\ call' = [fn |-> "buildDAG", sequences |-> <<first>> \o rest]
         /\ result' = [outcome |->
                          Returned(BuildDAG(<<first>> \o rest, DagAssetTypes, DagAssetIndexMap)),
                        timeOffset |->
                          IF Len(first) >= 2 /\ \E i \in 1..Len(first) : first[i].overlayLeft # 0
                          THEN HybridState(EmptyDAG, first, DagAssetIndexMap, "L0").timeOffset
                          ELSE 0]

MintedLabels(dag) == {LabelOf(k) : k \in 0..(dag.counter - 1)}
FiltersNamed(dag, name) == {i \in 1..Len(dag.filters) : dag.filters[i].name = name}

OneSequenceJoined ==
    /\ call.fn = "buildDAG"
    /\ Len(call.sequences) = 1
    /\ Len(call.sequences[1]) >= 2
    /\ result.outcome.value.filters # <<>>
Overlapping(fragments) == {i \in 2..Len(fragments) : fragments[i].overlayLeft # 0}
\* The first fragments of the maximal runs of zero-overlap fragments
ZeroOverlapRuns(fragments) ==
    {i \in 2..Len(fragments) :
        /\ fragments[i].overlayLeft = 0
        /\ i = 2 \/ fragments[i - 1].overlayLeft # 0}

\* C24: when the fragments of a sequence are joined, every fragment after the
\* first whose overlap-left is 0 is appended by concat and never by xfade,
\* wherever it stands, with one concat filter per maximal run of consecutive
\* zero-overlap fragments.
C24_ZeroOverlapJoinedByConcat ==
    OneSequenceJoined =>
        LET fragments == call.sequences[1]
            dag       == result.outcome.value
        IN  /\ Cardinality(FiltersNamed(dag, "xfade")) = Cardinality(Overlapping(fragments))
            /\ Cardinality(FiltersNamed(dag, "concat")) = Cardinality(ZeroOverlapRuns(fragments))

\* The timeline cursor before fragment i: the durations of the fragments before
\* it and the overlaps of those of them that were joined
RECURSIVE CursorBefore(_, _)
CursorBefore(fragments, i) ==
    IF i = 1 THEN 0
    ELSE CursorBefore(fragments, i - 1) + fragments[i - 1].duration
         + (IF i - 1 >= 2 THEN fragments[i - 1].overlayLeft ELSE 0)
XfadeFilters(dag) == SelectSeq(dag.filters, LAMBDA filter : filter.name = "xfade")
Hybrid == OneSequenceJoined /\ \E i \in 1..Len(call.sequences[1]) :
                                   call.sequences[1][i].overlayLeft # 0

\* C25: the k-th xfade of a sequence joins fragment i with duration
\* |overlap-left_i| / 1000 and offset (cursor + overlap-left_i) / 1000, cursor
\* being the timeline cursor before fragment i; the cursor then moves on by
\* duration_i + overlap-left_i, so that after the last fragment it is the sum of
\* the durations plus the sum of the overlaps of the joined fragments.
C25_XfadeTiming ==
    Hybrid =>
        LET fragments == call.sequences[1]
            n         == Len(fragments)
            xfades    == XfadeFilters(result.outcome.value)
            first     == n - Len(xfades) + 1
        IN  /\ \A k \in 1..Len(xfades) :
                 LET i == first + k - 1
                 IN  /\ xfades[k].options.duration.whole * 1000
                          + xfades[k].options.duration.thousandths
                            = Abs(fragments[i].overlayLeft)
                     /\ xfades[k].options.offset.whole * 1000
                          + xfades[k].options.offset.thousandths
                            = CursorBefore(fragments, i) + fragments[i].overlayLeft
            /\ result.timeOffset = CursorBefore(fragments, n + 1)

\* 3000 ms then 3000 ms with overlap-left -1000: offset 2 s, duration 1 s, the
\* cursor ends at 5000 ms
C25_Witness ==
    /\ Hybrid
    /\ Len(call.sequences[1]) = 2
    /\ call.sequences[1][2].overlayLeft = -1000
    /\ XfadeFilters(result.outcome.value)[1].options =
          [duration |-> [whole |-> 1, thousandths |-> 0],
           offset   |-> [whole |-> 2, thousandths |-> 0]]
    /\ result.timeOffset = 5000

\* C27: for every sequence with at least one fragment and every combination of
\* zero and non-zero overlayLeft, a filter writes the sequence's outputLabel, so
\* every label a filter of the graph reads is an input or the output of an
\* earlier filter.
C27_ConsumedLabelsProduced ==
    call.fn = "buildDAG" =>
        LET dag == result.outcome.value
        IN  \A i \in 1..Len(dag.filters) :
                \A k \in 1..Len(dag.filters[i].inputs) :
                    dag.filters[i].inputs[k] \in MintedLabels(dag) =>
                        \E j \in 1..(i - 1) : dag.filters[j].output = dag.filters[i].inputs[k]

\* The sequences of the call that have a fragment
NonEmptySequences == {k \in 1..Len(call.sequences) : call.sequences[k] # <<>>}
Producing(dag, label) == {i \in 1..Len(dag.filters) : dag.filters[i].output = label}

\* C26: in the graph of a project with several sequences the first non-empty
\* sequence is the base and every later non-empty sequence is composed onto it
\* by overlay, never appended after it in time; empty sequences add no filter;
\* exactly one filter produces outv and exactly one produces outa.
C26_SequencesOverlaid ==
    (call.fn = "buildDAG" /\ result.outcome.value.filters # <<>>) =>
        LET dag == result.outcome.value
        IN  /\ Cardinality(FiltersNamed(dag, "overlay")) = Cardinality(NonEmptySequences) - 1
            /\ \A i \in Producing(dag, "outv") : dag.filters[i].name # "concat"
            /\ Cardinality(Producing(dag, "outv")) = 1
            /\ Cardinality(Producing(dag, "outa")) = 1

\* src: generateFilterComplex — the filters of the graph in the order in which
\* dag.render() writes them, '' for a graph without filters
GenerateFilterComplex(projectSequences, assetTypes, map) ==
    BuildDAG(projectSequences, assetTypes, map).filters

\* src: generateFFmpegCommand — the -filter_complex part is there when the text
\* is not empty, the -map part always
GenerateFFmpegCommand(filterComplex) ==
    [hasFilterComplex |-> filterComplex # <<>>,
     filterComplex    |-> filterComplex,
     maps             |-> {"outv"}]

\* The sequences of the projects a command is generated for: the ones above and
\* one of audio only
CommandSequences ==
    FurtherSequences \cup {<<[assetName |-> "c", duration |-> 3000, overlayLeft |-> 0]>>}

\* generateFFmpegCommand(project, generateFilterComplex(project))
GenerateFFmpegCommandCall ==
    /\ UNCHANGED notLib
    /\ call = NoCall
    /\ \E projectSequences \in SeqsUpTo(CommandSequences, MaxSequences + 1) :
         /\ call' = [fn |-> "generateFFmpegCommand", sequences |-> projectSequences]
         /\ result' = [outcome |->
                          Returned(GenerateFFmpegCommand(
                              GenerateFilterComplex(projectSequences, DagAssetTypes,
                                                    DagAssetIndexMap)))]

\* C28: whenever the generated encoder command maps outv, its filter graph
\* holds a filter that produces outv, also for a project without a sequence or
\* without a video-bearing sequence.
C28_MappedLabelProduced ==
    call.fn = "generateFFmpegCommand" =>
        LET generated == result.outcome.value
        IN  \A label \in generated.maps :
                /\ generated.hasFilterComplex
                /\ \E i \in 1..Len(generated.filterComplex) :
                     generated.filterComplex[i].output = label

(***************************************************************************)
(* Cache keys of app rasterizations (app-renderer.ts)                      *)
(***************************************************************************)
\* date is a string or undefined
NoDate == [defined |-> FALSE, value |-> ""]
DateOf(text) == [defined |-> TRUE, value |-> text]
\* src: date ?? ''
DateOrEmpty(date) == IF date.defined THEN date.value ELSE ""

\* src: tags.join(',')
RECURSIVE JoinTags(_)
JoinTags(tags) ==
    IF tags = <<>> THEN ""
    ELSE IF Len(tags) = 1 THEN tags[1]
    ELSE tags[1] \o "," \o JoinTags(Tail(tags))

\* The inputs of one rasterization; parameters as JSON.stringify writes them
Rasterizations ==
    [src        : {"apps/banner"},
     parameters : {"{}"},
     title      : {"a", "ab"},
     date       : {NoDate, DateOf("b")},
     tags       : {<<>>, <<"t">>},
     outputName : OutputNames]

\* src: renderApp, the key of the rasterization
AppCacheKey(r) ==
    GenerateAppCacheKey(r.src, r.parameters, r.title, DateOrEmpty(r.date), JoinTags(r.tags),
                        r.outputName)

\* The keys of two rasterizations
GenerateAppCacheKeyCall ==
    /\ UNCHANGED notLib
    /\ call = NoCall
    /\ \E first \in Rasterizations, second \in Rasterizations :
         /\ call' = [fn |-> "generateAppCacheKey", first |-> first, second |-> second]
         /\ result' = [outcome |-> Returned(<<AppCacheKey(first), AppCacheKey(second)>>)]

\* C29: SHA-256 taken as collision-free, two app rasterizations get the same
\* cache key only if they agree on source directory, parameters, title, date,
\* tags and output name.
C29_SameKeySameInputs ==
    (call.fn = "generateAppCacheKey" /\ result.outcome.value[1] = result.outcome.value[2]) =>
        call.first = call.second

(***************************************************************************)
(* renderApp on its own (app-renderer.ts)                                  *)
(***************************************************************************)
\* The awaited steps of renderApp that can reject, in the order of the code
LaunchStep == "launch"
NewPageStep == "newPage"
TrySteps == {"setViewport", "evaluateOnNewDocument", "goto", "waitForFunction",
             "screenshot", "writeFile"}
NoFailure == "none"

\* What renderApp leaves behind: its outcome, whether it launched a browser of
\* its own, and whether that browser and the page are still open
RenderAppEnd(outcome, ownLaunched, ownOpen, pageOpen) ==
    [outcome |-> outcome, ownLaunched |-> ownLaunched, ownOpen |-> ownOpen,
     pageOpen |-> pageOpen]

\* src: renderApp — the cached screenshot returns before any browser; launch
\* and browser.newPage() stand before the try; the finally closes the page and
\* then the browser of its own
RenderApp(sharedBrowser, cached, failAt, pageCloseFails) ==
    IF cached THEN RenderAppEnd(Returned("cached"), FALSE, FALSE, FALSE)
    ELSE IF ~sharedBrowser /\ failAt = LaunchStep
    THEN RenderAppEnd(Threw(Error("StepFailed", LaunchStep)), FALSE, FALSE, FALSE)
    ELSE IF failAt = NewPageStep
    THEN RenderAppEnd(Threw(Error("StepFailed", NewPageStep)),
                      ~sharedBrowser, ~sharedBrowser, FALSE)
    ELSE IF pageCloseFails
    THEN RenderAppEnd(Threw(Error("StepFailed", "pageClose")),
                      ~sharedBrowser, ~sharedBrowser, TRUE)
    ELSE RenderAppEnd(IF failAt = NoFailure THEN Returned("rendered")
                      ELSE IF failAt = "waitForFunction"
                      THEN Threw([Error("Timeout", "app") EXCEPT
                                     !.timeoutMs = RENDER_TIMEOUT_MS])
                      ELSE Threw(Error("StepFailed", failAt)),
                      ~sharedBrowser, FALSE, FALSE)

\* renderApp(app, ..., sharedBrowser?)
RenderAppCall ==
    /\ UNCHANGED notLib
    /\ call = NoCall
    /\ \E sharedBrowser \in BOOLEAN, cached \in BOOLEAN, pageCloseFails \in BOOLEAN,
          failAt \in {NoFailure, LaunchStep, NewPageStep} \cup TrySteps :
         /\ failAt = LaunchStep => ~sharedBrowser
         /\ call' = [fn |-> "renderApp", sharedBrowser |-> sharedBrowser, cached |-> cached,
                     failAt |-> failAt, pageCloseFails |-> pageCloseFails]
         /\ result' = RenderApp(sharedBrowser, cached, failAt, pageCloseFails)

\* C30: when renderApp is called without a shared browser, the browser it
\* launches is closed on every way out: success, readiness timeout, and the
\* failure of any step after the launch (opening the page, setting the
\* viewport, navigation, screenshot, writing the file).
C30_OwnBrowserClosed ==
    (call.fn = "renderApp" /\ ~call.sharedBrowser /\ ~call.pageCloseFails
       /\ result.ownLaunched) =>
        ~result.ownOpen

(***************************************************************************)
(* Filter library: makeConcat and makeXFade (ffmpeg.test.ts)               *)
(***************************************************************************)
MaxConcatInputs == 6       \* labels handed to makeConcat

\* A Label is a tag and a kind
Label(tag, isAudio) == [tag |-> tag, isAudio |-> isAudio]
Filter(name, inputs, outputs, params) ==
    [name |-> name, inputs |-> inputs, outputs |-> outputs, params |-> params]
InvalidFilterInputs(message) == [kind |-> "InvalidFilterInputs", message |-> message]

\* The number of video labels the first segment of the given length starts with
RECURSIVE LeadingVideo(_, _)
LeadingVideo(inputs, segmentLength) ==
    IF segmentLength = 0 \/ inputs = <<>> \/ Head(inputs).isAudio THEN 0
    ELSE 1 + LeadingVideo(Tail(inputs), segmentLength - 1)

\* Every segment of the given length is v video labels followed by audio labels
\* (the variant looks at the length only)
FitsSegmentLength(inputs, n, v) == n * (Len(inputs) \div n) = Len(inputs)
FitsSegments(inputs, n, v) ==
    LET segmentLength == Len(inputs) \div n
    IN  /\ n * segmentLength = Len(inputs)
        /\ \A i \in 1..Len(inputs) :
             inputs[i].isAudio = (((i - 1) % segmentLength) >= v)

\* The segment counts are tried from the number of inputs downwards; 0 when
\* none fits
RECURSIVE LargestSegmentCount(_, _)
LargestSegmentCount(inputs, n) ==
    IF n = 0 THEN 0
    ELSE IF Len(inputs) % n = 0
            /\ FitsSegments(inputs, n, LeadingVideo(inputs, Len(inputs) \div n))
         THEN n
         ELSE LargestSegmentCount(inputs, n - 1)

\* Output labels: [v]/[a], or [v0][v1].. / [a0][a1].. when there are several
OutputTags(prefix, count, isAudio) ==
    IF count = 1 THEN <<Label(prefix, isAudio)>>
    ELSE [i \in 1..count |-> Label(prefix \o ToString(i - 1), isAudio)]

ConcatFilter(inputs, n) ==
    LET v == LeadingVideo(inputs, Len(inputs) \div n)
        a == (Len(inputs) \div n) - v
    IN  Filter("concat", inputs, OutputTags("v", v, FALSE) \o OutputTags("a", a, TRUE),
               [n |-> n, v |-> v, a |-> a])

\* makeConcat(inputs) taking the whole list for a single segment
MakeConcatSingleSegment(inputs) ==
    IF inputs = <<>> THEN Threw(InvalidFilterInputs("makeConcat: inputs cannot be empty"))
    ELSE Returned(ConcatFilter(inputs, 1))
\* makeConcat(inputs)
MakeConcat(inputs) ==
    IF inputs = <<>> THEN Threw(InvalidFilterInputs("makeConcat: inputs cannot be empty"))
    ELSE IF LargestSegmentCount(inputs, Len(inputs)) = 0
    THEN Threw(InvalidFilterInputs("makeConcat: inputs do not form segments"))
    ELSE Returned(ConcatFilter(inputs, LargestSegmentCount(inputs, Len(inputs))))

\* The error of makeXFade: which input is not video, and its tag
MustBeVideo(input, label) ==
    [kind |-> "InvalidFilterInputs", input |-> input, tag |-> label.tag,
     message |-> "makeXFade: " \o input \o " must be video, got audio (tag: "
                     \o label.tag \o ")"]

XFadeFilter(input1, input2, options) ==
    Filter("xfade", <<input1, input2>>, <<Label("xfade", FALSE)>>,
           [transition |-> options.transition, duration |-> options.duration,
            offset |-> options.offset])

\* makeXFade(input1, input2, options): input1 is looked at first
\* (the variant looks at input1 only)
MakeXFadeChecksFirstOnly(input1, input2, options) ==
    IF input1.isAudio THEN Threw(MustBeVideo("input1", input1))
    ELSE Returned(XFadeFilter(input1, input2, options))
MakeXFade(input1, input2, options) ==
    IF input1.isAudio THEN Threw(MustBeVideo("input1", input1))
    ELSE IF input2.isAudio THEN Threw(MustBeVideo("input2", input2))
    ELSE Returned(XFadeFilter(input1, input2, options))

XFadeLabels == {Label("0:v", FALSE), Label("1:v", FALSE), Label("0:a", TRUE), Label("1:a", TRUE)}
XFadeOptions == [transition : {"fade", "wipeleft"}, duration : {0, 1500}, offset : {5000}]

MakeXFadeCall ==
    /\ UNCHANGED notLib
    /\ call = NoCall
    /\ \E input1 \in XFadeLabels, input2 \in XFadeLabels, options \in XFadeOptions :
         /\ call' = [fn |-> "makeXFade", input1 |-> input1, input2 |-> input2,
                     options |-> options]
         /\ result' = [outcome |-> MakeXFade(input1, input2, options)]

\* Label lists: the tag tells the position and the kind
LabelAt(i, isAudio) == Label(ToString(i - 1) \o (IF isAudio THEN ":a" ELSE ":v"), isAudio)
LabelLists ==
    {[i \in 1..Len(kinds) |-> LabelAt(i, kinds[i])] : kinds \in SeqsUpTo(BOOLEAN, MaxConcatInputs)}

MakeConcatCall ==
    /\ UNCHANGED notLib
    /\ call = NoCall
    /\ \E inputs \in LabelLists :
         /\ call' = [fn |-> "makeConcat", inputs |-> inputs]
         /\ result' = [outcome |-> MakeConcat(inputs)]

\* (n, v, a) partitions the list: n segments of v video then a audio labels
Partitions(inputs, n, v, a) ==
    /\ n >= 1 /\ v + a >= 1
    /\ n * (v + a) = Len(inputs)
    /\ \A s \in 0..(n - 1) : \A p \in 1..(v + a) :
         inputs[s * (v + a) + p].isAudio = (p > v)

Triples(inputs) ==
    {t \in [n : 1..Len(inputs), v : 0..Len(inputs), a : 0..Len(inputs)] :
        Partitions(inputs, t.n, t.v, t.a)}

\* C17: for a non-empty label list that can be partitioned at all, makeConcat
\* picks the (n, v, a) with the largest n among the triples for which the list
\* is n consecutive segments of v video labels followed by a audio labels; for
\* a list of video labels only this is n = number of labels, v = 1, a = 0 (and
\* v = 0, a = 1 for audio labels only).
C17_LargestSegmentCount ==
    (call.fn = "makeConcat" /\ Triples(call.inputs) # {}) =>
        /\ result.outcome.ok
        /\ result.outcome.value.params \in Triples(call.inputs)
        /\ \A t \in Triples(call.inputs) : t.n <= result.outcome.value.params.n
        /\ (\A i \in 1..Len(call.inputs) : ~call.inputs[i].isAudio)
             => result.outcome.value.params = [n |-> Len(call.inputs), v |-> 1, a |-> 0]
        /\ (\A i \in 1..Len(call.inputs) : call.inputs[i].isAudio)
             => result.outcome.value.params = [n |-> Len(call.inputs), v |-> 0, a |-> 1]

\* six video labels meant as two segments of three: n = 6, v = 1, a = 0
C17_Witness ==
    /\ call.fn = "makeConcat"
    /\ Len(call.inputs) = 6
    /\ \A i \in 1..6 : ~call.inputs[i].isAudio
    /\ [n |-> 2, v |-> 3, a |-> 0] \in Triples(call.inputs)
    /\ result.outcome.ok
    /\ result.outcome.value.params = [n |-> 6, v |-> 1, a |-> 0]

\* C18 as stated: whenever the list is k segments of v video and a audio
\* labels, for any k >= 1 and v + a >= 1, makeConcat selects n = k, v, a.
C18_SelectsTheSegmentsGiven ==
    call.fn = "makeConcat" =>
        \A t \in Triples(call.inputs) :
            result.outcome.ok /\ result.outcome.value.params = t

\* C18: for a label list built from k segments each carrying v video and a
\* audio labels, makeConcat selects n = k, v, a when every segment has both
\* kinds (v >= 1 and a >= 1) or a single label (v + a = 1); segments of several
\* labels of one kind are split into one-label segments (n = k * (v + a)).
C18_SelectsMixedSegments ==
    call.fn = "makeConcat" =>
        \A t \in Triples(call.inputs) :
            /\ result.outcome.ok
            /\ ((t.v >= 1 /\ t.a >= 1) \/ t.v + t.a = 1)
                 => result.outcome.value.params = t
            /\ ~((t.v >= 1 /\ t.a >= 1) \/ t.v + t.a = 1)
                 => /\ result.outcome.value.params.n = t.n * (t.v + t.a)
                    /\ result.outcome.value.params.v + result.outcome.value.params.a = 1

\* two segments of two video labels and one audio label: n = 2, v = 2, a = 1
C18_Witness ==
    /\ call.fn = "makeConcat"
    /\ [i \in 1..Len(call.inputs) |-> call.inputs[i].isAudio]
         = <<FALSE, FALSE, TRUE, FALSE, FALSE, TRUE>>
    /\ result.outcome.ok
    /\ result.outcome.value.params = [n |-> 2, v |-> 2, a |-> 1]
    /\ [i \in 1..3 |-> result.outcome.value.outputs[i].tag] = <<"v0", "v1", "a">>

\* C19: makeXFade returns a filter only when both inputs are video labels; for
\* a pair with an audio label it raises an error that names the offending input
\* and its tag (input1 when both are audio) and no filter is produced.
C19_XFadeRejectsAudio ==
    call.fn = "makeXFade" =>
        /\ result.outcome.ok <=> (~call.input1.isAudio /\ ~call.input2.isAudio)
        /\ result.outcome.ok =>
             /\ result.outcome.value.inputs = <<call.input1, call.input2>>
             /\ result.outcome.value.outputs = <<[tag |-> "xfade", isAudio |-> FALSE]>>
        /\ call.input1.isAudio =>
             /\ ~result.outcome.ok
             /\ result.outcome.error.input = "input1"
             /\ result.outcome.error.tag = call.input1.tag
        /\ (~call.input1.isAudio /\ call.input2.isAudio) =>
             /\ ~result.outcome.ok
             /\ result.outcome.error.input = "input2"
             /\ result.outcome.error.tag = call.input2.tag

\* both inputs audio: the error is about input1
C19_Witness ==
    /\ call.fn = "makeXFade"
    /\ call.input1 = [tag |-> "0:a", isAudio |-> TRUE]
    /\ call.input2 = [tag |-> "1:a", isAudio |-> TRUE]
    /\ ~result.outcome.ok
    /\ result.outcome.error.message = "makeXFade: input1 must be video, got audio (tag: 0:a)"

(***************************************************************************)
(* Timing resolution over passes (TimingSpec)                              *)
(***************************************************************************)
MaxTimingFragments == 2    \* fragments of the project whose timing is resolved

TimingIds == <<"intro", "ending", "ghost">>
TimingProps == {<<"time", "start">>, <<"time", "duration">>}

\* A timing value is a literal number of milliseconds or a compiled expression
Literal(n) == [literal |-> TRUE, num |-> n]
Compiled(expr) == [literal |-> FALSE, expr |-> expr]
AutoStart == [literal |-> TRUE, num |-> -1]      \* no start declared

StartValues == {AutoStart, Literal(8000)}
DurationValues ==
    {Literal(3000)} \cup
    {Compiled(ParseExpression(<<[id |-> id, prop |-> prop]>>, 0)) :
        id \in Range(TimingIds), prop \in TimingProps}

TimingProjects ==
    UNION {{[i \in 1..n |-> [id |-> TimingIds[i], start |-> st[i], duration |-> du[i]]] :
               st \in [1..n -> StartValues], du \in [1..n -> DurationValues]}
              : n \in 1..MaxTimingFragments}

\* src: calculateFinalValue — a number as it is, an expression evaluated
\* against the context (the variant takes a failed evaluation for 0)
CalculateFinalValueOrZero(value, context) ==
    IF value.literal THEN Returned(value.num)
    ELSE LET r == EvaluateCompiledExpression(value.expr, context)
         IN  IF r.ok THEN r ELSE Returned(0)
CalculateFinalValue(value, context) ==
    IF value.literal THEN Returned(value.num)
    ELSE EvaluateCompiledExpression(value.expr, context)

\* The start of fragment i: declared, or the end of the previous fragment,
\* which must have been resolved
ResolveStart(fragments, i, context) ==
    IF fragments[i].start # AutoStart THEN CalculateFinalValue(fragments[i].start, context)
    ELSE IF i = 1 THEN Returned(0)
    ELSE IF fragments[i - 1].id \in DOMAIN context
         THEN Returned(context[fragments[i - 1].id].fields["time"].fields["end"].num)
         ELSE Threw(FragmentNotFound(fragments[i - 1].id, "auto"))

Unresolved(fragments, context) ==
    {fragments[i].id : i \in {j \in 1..Len(fragments) : fragments[j].id \notin DOMAIN context}}

UnresolvableExpression(ids) == [kind |-> "UnresolvableExpression", fragments |-> ids]

\* The compile of a project starts: src Project.constructor gives the empty
\* expression context
TimingStart ==
    /\ UNCHANGED notTiming
    /\ timing = NoTiming
    /\ \E fragments \in TimingProjects :
         timing' = [stage |-> "pass", fragments |-> fragments, context |-> <<>>,
                    pass |-> 1, idx |-> 1, progress |-> FALSE,
                    error |-> UnresolvableExpression({})]

\* One fragment of the current pass: resolved fragments are skipped; a fragment
\* whose start and duration both evaluate is entered into the context
ResolveFragment ==
    /\ UNCHANGED notTiming
    /\ timing.stage = "pass"
    /\ timing.idx <= Len(timing.fragments)
    /\ LET f     == timing.fragments[timing.idx]
           start == ResolveStart(timing.fragments, timing.idx, timing.context)
           dur   == CalculateFinalValue(f.duration, timing.context)
       IN  IF f.id \notin DOMAIN timing.context /\ start.ok /\ dur.ok
           THEN timing' = [timing EXCEPT
                             !.context = (f.id :> FragmentData(start.value, dur.value)) @@ @,
                             !.progress = TRUE,
                             !.idx = @ + 1]
           ELSE timing' = [timing EXCEPT !.idx = @ + 1]

\* End of a pass: done when nothing is left, another pass when this one
\* resolved something, otherwise UnresolvableExpression with what is left
PassEnd ==
    /\ UNCHANGED notTiming
    /\ timing.stage = "pass"
    /\ timing.idx > Len(timing.fragments)
    /\ LET left == Unresolved(timing.fragments, timing.context)
       IN  IF left = {} THEN timing' = [timing EXCEPT !.stage = "resolved"]
           ELSE IF timing.progress
           THEN timing' = [timing EXCEPT !.pass = @ + 1, !.idx = 1, !.progress = FALSE]
           ELSE timing' = [timing EXCEPT !.stage = "failed",
                                         !.error = UnresolvableExpression(left)]

\* The fragments a fragment's timing waits for: those its expressions name,
\* and the previous fragment when it declares no start
TimingDeps(fragments, i) ==
    (IF fragments[i].start = AutoStart /\ i > 1 THEN {fragments[i - 1].id} ELSE {}) \cup
    (IF fragments[i].duration.literal THEN {}
     ELSE {fragments[i].duration.expr.refs[k].id :
              k \in 1..Len(fragments[i].duration.expr.refs)})

IndexOfId(fragments, id) == CHOOSE i \in 1..Len(fragments) : fragments[i].id = id

\* A fragment can be satisfied when everything it waits for exists and can be
\* satisfied without coming back to a fragment already being waited on
RECURSIVE Satisfiable(_, _, _)
Satisfiable(fragments, i, waiting) ==
    /\ fragments[i].id \notin waiting
    /\ \A d \in TimingDeps(fragments, i) :
         /\ \E j \in 1..Len(fragments) : fragments[j].id = d
         /\ Satisfiable(fragments, IndexOfId(fragments, d), waiting \cup {fragments[i].id})

Unsatisfiable(fragments) ==
    {fragments[i].id : i \in {j \in 1..Len(fragments) : ~Satisfiable(fragments, j, {})}}

TimingDone == timing.stage \in {"resolved", "failed"}

C11_Outcome ==
    /\ timing.stage = "pass" => timing.pass <= Len(timing.fragments) + 1
    /\ timing.stage = "resolved" =>
         /\ Unsatisfiable(timing.fragments) = {}
         /\ Unresolved(timing.fragments, timing.context) = {}
    /\ timing.stage = "failed" =>
         /\ Unsatisfiable(timing.fragments) # {}
         /\ timing.error = UnresolvableExpression(Unsatisfiable(timing.fragments))
         /\ timing.error.fragments = Unresolved(timing.fragments, timing.context)

C11_AnotherPassOnlyOnProgress ==
    (timing.stage = "pass" /\ timing'.stage = "pass" /\ timing'.pass > timing.pass)
        => timing.progress

RunIdle ==
    /\ projectFile = [resolution |-> [yt |-> Landscape, ig |-> Portrait],
                      apps |-> <<>>, containers |-> <<>>]
    /\ appCache = {}
    /\ containerCache = {}
    /\ pc = "idle"
    /\ run = NoRun
    /\ project = NoProject
    /\ browser = NoBrowser
    /\ hist = NoHist

CmdNext == Construct \/ Generate

CmdSpecInit == CmdInit /\ RunIdle /\ LibIdle /\ TimingIdle

CmdSpec == CmdSpecInit /\ [][CmdNext]_vars

TimingNext == TimingStart \/ ResolveFragment \/ PassEnd

TimingSpecInit == CmdIdle /\ RunIdle /\ LibIdle /\ TimingIdle

TimingSpec == TimingSpecInit /\ [][TimingNext]_vars /\ WF_vars(TimingNext)

LibNext == EvaluateCall \/ PrepareProjectCall \/ BuildSequenceTimelineCall \/ BuildDAGCall
             \/ MakeConcatCall \/ MakeXFadeCall \/ EvaluateQuotientCall
             \/ EvaluateUnitCall \/ GenerateFFmpegCommandCall
             \/ GenerateAppCacheKeyCall \/ RenderAppCall

LibSpecInit == CmdIdle /\ RunIdle /\ LibIdle /\ TimingIdle

LibSpec == LibSpecInit /\ [][LibNext]_vars

====
